---- MODULE Spec2Model ----
(***************************************************************************)
(* License issuance / verification, revocation and trial fallback of the   *)
(* AI-Invoice service, modelled from src/ai_invoice/{license,              *)
(* license_generator,trial,config}.py, src/api/{middleware,security,       *)
(* license_validator}.py and scripts/{generate_license,license_workflow}.py*)
(***************************************************************************)
EXTENDS Integers, Sequences, FiniteSets, TLC

VARIABLES
    clock,        \* current UTC instant, in ticks (datetime.now(timezone.utc))
    trial_file,   \* content of the file at _trial_store_path()
    trial_ret,    \* outcome of the last trial call (history)
    trial_first,  \* the first TrialStatus a trial call returned (history)
    issued,       \* the license artifact last issued and who signed it
    presented,    \* the token a client holds, and how it was altered
    verified,     \* outcome of the last verification (history)
    settings,     \* the shared Settings instance (ai_invoice.config.settings)
    response,     \* the last request handled and the response it got (history)
    granted,      \* token ids that were granted license claims so far (history)
    limiter,      \* the TokenBucketLimiter of the middleware instance
    admitted,     \* per identity, the answers of the limiter while no time
                  \* elapsed since its first request (history)
    calls,        \* the calls in flight, by the thread or process running them
    store,        \* the requests kept in license_requests.json
    tmp_files     \* the temporary files on disk

trial_vars == <<trial_file, trial_ret, trial_first>>
license_vars == <<issued, presented, verified>>
service_vars == <<settings, response, granted, limiter, admitted>>
host_vars == <<calls, store, tmp_files>>
vars ==
    <<clock, trial_file, trial_ret, trial_first, issued, presented, verified,
      settings, response, granted, limiter, admitted, calls, store, tmp_files>>

----------------------------------------------------------------------------
(* Bounds of the model.                                                    *)

\* sub-second resolution of datetime values: ticks per second
TicksPerSecond == 2
\* instants the clock can take: k trial periods plus 0..MaxOffset ticks
MaxPeriods == 1
MaxOffset == 2

----------------------------------------------------------------------------
(* Python values.  Each kind is a record whose field set is its own, so    *)
(* values of different kinds can be compared.                              *)

PyStr(s) == [s |-> s, t |-> "str"]
PyInt(n) == [n |-> n, t |-> "int"]
PyNone == [t |-> "null"]
PyList(items) == [items |-> items, t |-> "list"]
PyDict(kv) == [kv |-> kv, t |-> "dict"]
\* a str holding an ISO-8601 timestamp: whole seconds, fraction (ticks), zone
\* suffix ("Z", "+00:00" or "" for a naive timestamp)
PyTs(sec, frac, tz) == [frac |-> frac, sec |-> sec, t |-> "ts", tz |-> tz]
\* a str holding the base64 text of the bytes b
PyB64(b) == [b |-> b, t |-> "b64"]

PyBool(b) == [bool |-> b, t |-> "bool"]

IsStr(v) == v.t \in {"str", "ts", "b64"}
IsList(v) == v.t = "list"
IsDict(v) == v.t = "dict"
Item(k, v) == [k |-> k, v |-> v]

HasKey(d, key) == \E i \in 1..Len(d.kv) : d.kv[i].k = key
\* d[key] of a dict that has the key
GetItem(d, key) == d.kv[CHOOSE i \in 1..Len(d.kv) : d.kv[i].k = key].v
\* d.get(key): None when absent
DictGet(d, key) == IF HasKey(d, key) THEN GetItem(d, key) ELSE PyNone
Keys(d) == {d.kv[i].k : i \in 1..Len(d.kv)}

\* outcome of a call: a returned value or a raised exception
Ok(v) == [ok |-> TRUE, val |-> v]
Raise(e) == [exc |-> e, ok |-> FALSE]
RaiseMsg(e, msg) == [exc |-> e, msg |-> msg, ok |-> FALSE]

\* Python ==: dicts compare as maps whatever their insertion order, lists
\* elementwise, and True == 1, False == 0
RECURSIVE PyEq(_, _)
PyEq(a, b) ==
    IF a.t = "dict" /\ b.t = "dict"
    THEN /\ Keys(a) = Keys(b)
         /\ \A k \in Keys(a) : PyEq(GetItem(a, k), GetItem(b, k))
    ELSE IF a.t = "list" /\ b.t = "list"
    THEN /\ Len(a.items) = Len(b.items)
         /\ \A i \in 1..Len(a.items) : PyEq(a.items[i], b.items[i])
    ELSE IF a.t = "bool" /\ b.t = "int" THEN b.n = (IF a.bool THEN 1 ELSE 0)
    ELSE IF a.t = "int" /\ b.t = "bool" THEN a.n = (IF b.bool THEN 1 ELSE 0)
    ELSE a = b

\* d with d[key] = value: an existing key keeps its place, a new one is last
SetItem(d, key, value) ==
    IF HasKey(d, key)
    THEN PyDict([i \in 1..Len(d.kv) |->
                    IF d.kv[i].k = key THEN Item(key, value) ELSE d.kv[i]])
    ELSE PyDict(Append(d.kv, Item(key, value)))

\* d without key
DelItem(d, key) == PyDict(SelectSeq(d.kv, LAMBDA it : it.k # key))

----------------------------------------------------------------------------
(* Bytes / file contents: JSON text, or bytes that are no JSON.            *)

JsonText(v) == [bt |-> "text", val |-> v]
JunkBytes == [bt |-> "junk"]
\* bytes that are not valid UTF-8
BadUtf8Bytes == [bt |-> "badutf8"]
NoFile == [bt |-> "absent"]
\* a file opened for writing and not written yet
EmptyFile == [bt |-> "empty"]
\* an Ed25519 signature: made with a key pair's private key over a message
SigBytes(key, msg) == [bt |-> "sig", key |-> key, msg |-> msg]

\* json.dumps(data) without sort_keys: the text lists keys in insertion order
json_dumps_plain(v) == JsonText(v)

\* json.loads(text): the value, dict items in text order
json_loads(b) ==
    IF b.bt = "text" THEN Ok(b.val)
    ELSE IF b.bt = "badutf8" THEN Raise("UnicodeDecodeError")
    ELSE Raise("JSONDecodeError")

\* the dict keys of the model in lexicographic order, as sort_keys orders them
KeyOrder ==
    <<"admin", "algorithm", "certificate", "device", "expires_at", "features",
      "id", "issued_at", "key_id", "metadata", "name", "payload", "plan",
      "signature", "started_at", "tenant", "token_id", "version">>

\* the items of a dict ordered by key
SortItems(kv) ==
    LET present == SelectSeq(KeyOrder, LAMBDA k : HasKey(PyDict(kv), k))
    IN [i \in 1..Len(present) |-> Item(present[i], GetItem(PyDict(kv), present[i]))]

\* sort_keys applied to the outermost dict only
SortKeysShallow(v) ==
    IF v.t = "dict" THEN PyDict(SortItems(v.kv)) ELSE v

RECURSIVE SortKeys(_)
SortKeys(v) ==
    IF v.t = "dict"
    THEN PyDict(SortItems([i \in 1..Len(v.kv) |->
                              Item(v.kv[i].k, SortKeys(v.kv[i].v))]))
    ELSE IF v.t = "list"
    THEN PyList([i \in 1..Len(v.items) |-> SortKeys(v.items[i])])
    ELSE v

\* json.dumps(data, separators=(",", ":"), sort_keys=True, ensure_ascii=False)
json_dumps_sorted(v) == JsonText(SortKeys(v))

----------------------------------------------------------------------------
(* Trial license: src/ai_invoice/trial.py                                  *)

_DEFAULT_FEATURES ==
    {"extract", "classify", "predict", "predictive", "predictive_train", "train"}

\* timedelta(days=7), in ticks
_TRIAL_DURATION == 7 * 86400 * TicksPerSecond

\* the mutant: isoformat(timespec="seconds") drops the fraction
isoformat_seconds(dt) == PyTs(dt \div TicksPerSecond, 0, "+00:00")

\* datetime.isoformat() of an aware UTC datetime: full precision, "+00:00"
isoformat(dt) == PyTs(dt \div TicksPerSecond, dt % TicksPerSecond, "+00:00")

\* datetime.fromisoformat(value.replace("Z", "+00:00")), naive taken as UTC
fromisoformat(value) ==
    IF value.t = "ts" /\ value.frac \in 0..(TicksPerSecond - 1)
    THEN Ok(value.sec * TicksPerSecond + value.frac)
    ELSE Raise("ValueError")

_parse_timestamp(value) ==
    IF ~IsStr(value) THEN Raise("AttributeError")   \* value.strip()
    ELSE fromisoformat(value)

TrialStatus(started_at, expires_at, valid, features) ==
    [started_at |-> started_at, expires_at |-> expires_at,
     valid |-> valid, features |-> features]

\* TrialStatus.as_claims
as_claims(status) ==
    [sub |-> "trial",
     jti |-> status.started_at \div TicksPerSecond,
     exp |-> status.expires_at \div TicksPerSecond,
     features |-> status.features,
     trial |-> TRUE]

\* the file content _persist_trial writes
_persist_trial(started_at, expires_at) ==
    json_dumps_plain(PyDict(<<Item("started_at", isoformat(started_at)),
                              Item("expires_at", isoformat(expires_at))>>))

\* a trial call's effect: the file it leaves and what it returns or raises
TrialOutcome(file, ret) == [file |-> file, ret |-> ret]

_initialize_trial_expiry(now) == now + _TRIAL_DURATION

_initialize_trial(now) ==
    LET expires_at == _initialize_trial_expiry(now)
    IN TrialOutcome(_persist_trial(now, expires_at),
                    Ok(TrialStatus(now, expires_at, TRUE, _DEFAULT_FEATURES)))

\* the mutant: an expired trial is started again
_load_trial_window_restarts(file, started, expires, now) ==
    IF expires <= started THEN _initialize_trial(now)
    ELSE IF now < expires
         THEN TrialOutcome(file,
                  Ok(TrialStatus(started, expires, TRUE, _DEFAULT_FEATURES)))
         ELSE _initialize_trial(now)

\* _load_trial once both timestamps are parsed (lines 90-99)
_load_trial_window(file, started, expires, now) ==
    IF expires <= started THEN _initialize_trial(now)
    ELSE TrialOutcome(file,
             Ok(TrialStatus(started, expires, now < expires, _DEFAULT_FEATURES)))

_load_trial(file, now) ==
    LET raw == json_loads(file)
    IN IF file.bt = "absent" THEN _initialize_trial(now)  \* FileNotFoundError
       ELSE IF ~raw.ok THEN _initialize_trial(now)        \* JSONDecodeError
       ELSE IF ~IsDict(raw.val)
            THEN TrialOutcome(file, Raise("TypeError"))   \* raw["started_at"]
       ELSE IF ~HasKey(raw.val, "started_at")
            THEN _initialize_trial(now)                   \* KeyError
       ELSE LET started == _parse_timestamp(GetItem(raw.val, "started_at"))
            IN IF ~started.ok
               THEN IF started.exc = "ValueError"
                    THEN _initialize_trial(now)
                    ELSE TrialOutcome(file, Raise(started.exc))
               ELSE IF ~HasKey(raw.val, "expires_at")
                    THEN _initialize_trial(now)           \* KeyError
               ELSE LET expires == _parse_timestamp(GetItem(raw.val, "expires_at"))
                    IN IF ~expires.ok
                       THEN IF expires.exc = "ValueError"
                            THEN _initialize_trial(now)
                            ELSE TrialOutcome(file, Raise(expires.exc))
                       ELSE _load_trial_window(file, started.val, expires.val, now)

get_trial_status(file, now) ==
    IF file.bt = "absent"                                 \* not path.exists()
    THEN _initialize_trial(now)
    ELSE _load_trial(file, now)

\* (status, claims): claims is None unless the status is valid
resolve_trial_claims(file, now) ==
    LET r == get_trial_status(file, now)
    IN IF ~r.ret.ok THEN r
       ELSE TrialOutcome(r.file,
                Ok([status |-> r.ret.val,
                    claims |-> IF r.ret.val.valid
                               THEN as_claims(r.ret.val)
                               ELSE PyNone]))

----------------------------------------------------------------------------
(* License artifacts: src/ai_invoice/license.py                            *)

LVE(msg) == RaiseMsg("LicenseVerificationError", msg)
LicenseExpired == RaiseMsg("LicenseExpiredError", "License has expired.")
\* except LicenseVerificationError also catches its subclass
IsLVE(r) == ~r.ok /\ r.exc \in {"LicenseVerificationError", "LicenseExpiredError"}

_canonical_json(data) == json_dumps_sorted(data)

canonicalize_payload(payload) == _canonical_json(payload)

_decode_datetime(value) ==
    IF IsStr(value)
    THEN fromisoformat(value)
    ELSE Raise("TypeError")

StrOrNone(v) == IsStr(v) \/ v = PyNone

\* TenantInfo: id: str, name: str | None, metadata: dict, extra="forbid"
TenantInfoValid(tn) ==
    /\ IsDict(tn)
    /\ Keys(tn) \subseteq {"id", "name", "metadata"}
    /\ HasKey(tn, "id") /\ IsStr(GetItem(tn, "id"))
    /\ HasKey(tn, "name") => StrOrNone(GetItem(tn, "name"))
    /\ HasKey(tn, "metadata") => IsDict(GetItem(tn, "metadata"))

LicensePayloadFields ==
    {"tenant", "features", "issued_at", "expires_at", "device", "token_id", "key_id"}

\* the fields of LicensePayload other than the two datetimes
LicensePayloadFieldsValid(obj) ==
    /\ Keys(obj) \subseteq LicensePayloadFields
    /\ HasKey(obj, "tenant") /\ TenantInfoValid(GetItem(obj, "tenant"))
    /\ HasKey(obj, "features") =>
          /\ IsList(GetItem(obj, "features"))
          /\ \A i \in 1..Len(GetItem(obj, "features").items) :
                IsStr(GetItem(obj, "features").items[i])
    /\ HasKey(obj, "device") => StrOrNone(GetItem(obj, "device"))
    /\ HasKey(obj, "token_id") /\ IsStr(GetItem(obj, "token_id"))
    /\ HasKey(obj, "key_id") => StrOrNone(GetItem(obj, "key_id"))

\* the model built from a dict whose datetime fields the "before" validator
\* _validate_dt turned into issued_at and expires_at: the typed payload, a
\* ValidationError, or the TypeError of _decode_datetime, which pydantic
\* does not wrap
LicensePayload_validated(obj, issued_at, expires_at) ==
    IF HasKey(obj, "issued_at") /\ ~issued_at.ok /\ issued_at.exc = "TypeError"
    THEN Raise("TypeError")
    ELSE IF HasKey(obj, "expires_at") /\ ~expires_at.ok /\ expires_at.exc = "TypeError"
    THEN Raise("TypeError")
    ELSE IF /\ LicensePayloadFieldsValid(obj)
            /\ HasKey(obj, "issued_at") /\ issued_at.ok
            /\ HasKey(obj, "expires_at") /\ expires_at.ok
    THEN Ok([tenant |-> [id |-> GetItem(GetItem(obj, "tenant"), "id"),
                         name |-> DictGet(GetItem(obj, "tenant"), "name"),
                         metadata |-> IF HasKey(GetItem(obj, "tenant"), "metadata")
                                      THEN GetItem(GetItem(obj, "tenant"), "metadata")
                                      ELSE PyDict(<<>>)],
             features |-> IF HasKey(obj, "features")
                          THEN GetItem(obj, "features").items
                          ELSE <<>>,
             issued_at |-> issued_at.val,
             expires_at |-> expires_at.val,
             device |-> DictGet(obj, "device"),
             token_id |-> GetItem(obj, "token_id"),
             key_id |-> DictGet(obj, "key_id")])
    ELSE Raise("ValidationError")

\* LicensePayload.model_validate(obj) of a dict
LicensePayload_model_validate(obj) ==
    LicensePayload_validated(obj,
        _decode_datetime(DictGet(obj, "issued_at")),
        _decode_datetime(DictGet(obj, "expires_at")))

\* base64.b64encode: the standard alphabet, which urlsafe_b64decode does not
\* read back
standard_b64encode(data) == [b |-> data, t |-> "b64std"]

\* base64.urlsafe_b64encode(data).decode("utf-8")
urlsafe_b64encode(data) == PyB64(data)

\* base64.urlsafe_b64decode(text.encode("utf-8")): the bytes, or binascii.Error
\* (a ValueError) for text that is no base64
urlsafe_b64decode(text) ==
    IF text.t = "b64" THEN Ok(text.b) ELSE Raise("binascii.Error")

encode_license_token(artifact) == urlsafe_b64encode(_canonical_json(artifact))

decode_license_token(token) ==
    LET data == urlsafe_b64decode(token)
    IN IF ~data.ok THEN LVE("Token is not valid base64.")
       ELSE LET parsed == json_loads(data.val)
            IN IF ~parsed.ok
               THEN IF parsed.exc = "JSONDecodeError"
                    THEN LVE("Token did not decode to JSON.")
                    ELSE Raise(parsed.exc)
               ELSE IF ~IsDict(parsed.val)
                    THEN LVE("Token must decode to an object.")
               ELSE parsed

\* the mutant: the exit status of openssl is not looked at
_verify_signature_unchecked(public_key, payload, signature) ==
    Ok(PyNone)

\* openssl pkeyutl -verify -pubin -inkey <key> -rawin: exit status 0 exactly
\* for the signature the matching private key makes over these bytes
_verify_signature(public_key, payload, signature) ==
    IF signature = SigBytes(public_key, payload)
    THEN Ok(PyNone)
    ELSE LVE("License signature is invalid.")

\* how a call ended and the temporary files it left on disk
Exit(ret, left) == [ret |-> ret, left |-> left]

\* what can go wrong inside _verify_signature: writing the payload, the
\* signature or the key file, openssl missing, subprocess.run failing
\* otherwise, a non-zero exit status
VerifyFaults ==
    {"none", "write_payload", "write_signature", "write_key", "openssl_missing",
     "openssl_error", "openssl_exit"}

\* the temporary files _verify_signature creates: a key file only when the
\* verifier holds the key as a string
VerifyFiles(key_source) ==
    {"verify-payload", "verify-signature"}
    \cup (IF key_source = "data" THEN {"verify-key"} ELSE {})

\* _verify_signature with its temporary files, statement by statement: the
\* files are written before the try whose finally unlinks them
_verify_signature_run(key_source, public_key, payload, signature, fault) ==
    IF fault = "write_payload"
    THEN Exit(Raise("OSError"), {"verify-payload"})
    ELSE IF fault = "write_signature"
    THEN Exit(Raise("OSError"), {"verify-payload", "verify-signature"})
    ELSE IF fault = "write_key" /\ key_source = "data"
    THEN Exit(Raise("OSError"), VerifyFiles(key_source))
    ELSE IF fault = "openssl_missing"
    THEN Exit(LVE("OpenSSL executable is required for verification."),
              VerifyFiles(key_source) \ VerifyFiles(key_source))
    ELSE IF fault = "openssl_error"
    THEN Exit(Raise("PermissionError"),
              VerifyFiles(key_source) \ VerifyFiles(key_source))
    ELSE IF fault = "openssl_exit"
    THEN Exit(LVE("License signature is invalid."),
              VerifyFiles(key_source) \ VerifyFiles(key_source))
    ELSE Exit(_verify_signature(public_key, payload, signature),
              VerifyFiles(key_source) \ VerifyFiles(key_source))

\* the mutant: verify_token never finds a token expired
verify_token_unexpiring(payload, now) ==
    Ok(payload)

\* the expiry test with a grace of one second
verify_token_expiry_lenient(payload, now) ==
    IF payload.expires_at + TicksPerSecond < now THEN LicenseExpired ELSE Ok(payload)

\* the last step of verify_token: payload.expires_at < now
verify_token_expiry(payload, now) ==
    IF payload.expires_at < now THEN LicenseExpired ELSE Ok(payload)

\* verify_token from model_validate on: payload is its outcome
verify_token_payload(payload, now) ==
    IF ~payload.ok
    THEN IF payload.exc = "ValidationError"
         THEN LVE("License payload is malformed.")
         ELSE payload
    ELSE verify_token_expiry(payload.val, now)

\* verify_token testing the expiry of the payload before its signature
verify_token_expiry_first(checked, payload_obj, now) ==
    IF LicensePayload_model_validate(payload_obj).ok
       /\ LicensePayload_model_validate(payload_obj).val.expires_at < now
    THEN LicenseExpired
    ELSE IF ~checked.ok THEN checked
    ELSE verify_token_payload(LicensePayload_model_validate(payload_obj), now)

\* verify_token from the signature check on: checked is its outcome
verify_token_checked(checked, payload_obj, now) ==
    IF ~checked.ok THEN checked
    ELSE verify_token_payload(LicensePayload_model_validate(payload_obj), now)

\* verify_token from the decoded signature on
verify_token_signature(public_key, payload_obj, signature, now) ==
    IF ~signature.ok
    THEN LVE("Signature is not base64 encoded.")
    ELSE verify_token_checked(
             _verify_signature(public_key, _canonical_json(payload_obj), signature.val),
             payload_obj, now)

\* verify_token on the decoded artifact: algorithm, version and shape first
verify_token_artifact(public_key, artifact, now) ==
    IF ~PyEq(DictGet(artifact, "algorithm"), PyStr("ed25519"))
    THEN LVE("Unsupported license algorithm.")
    ELSE IF ~PyEq(DictGet(artifact, "version"), PyInt(1))
    THEN LVE("Unsupported license version.")
    ELSE IF ~IsDict(DictGet(artifact, "payload")) \/ ~IsStr(DictGet(artifact, "signature"))
    THEN LVE("Malformed license artifact.")
    ELSE verify_token_signature(public_key, DictGet(artifact, "payload"),
                                urlsafe_b64decode(DictGet(artifact, "signature")), now)

verify_token_decoded(public_key, decoded, now) ==
    IF ~decoded.ok THEN decoded
    ELSE verify_token_artifact(public_key, decoded.val, now)

\* LicenseVerifier.verify_token with the verifier's public key, at instant now
verify_token(public_key, token, now) ==
    verify_token_decoded(public_key, decode_license_token(token), now)

----------------------------------------------------------------------------
(* Issuance: src/ai_invoice/license_generator.py, scripts/generate_license.py *)

\* isoformat(timespec="seconds") with a trailing Z: the fraction is dropped
isoformat_utc(dt) == PyTs(dt \div TicksPerSecond, 0, "Z")

\* openssl pkeyutl -sign -inkey <private key> -rawin
sign_payload(private_key, payload) == SigBytes(private_key, payload)

\* what can go wrong inside sign_payload: writing the payload file, creating
\* the signature file, openssl missing, subprocess.run failing otherwise
\* (PermissionError), a non-zero exit status, reading the signature back
SignFaults ==
    {"none", "write_payload", "create_signature", "openssl_missing",
     "openssl_error", "openssl_exit", "read_signature"}

\* sign_payload with its temporary files, statement by statement
sign_payload_run(private_key, payload, fault) ==
    IF fault = "write_payload"
    THEN Exit(Raise("OSError"), {"sign-payload"})
    ELSE IF fault = "create_signature"
    THEN Exit(Raise("OSError"), {"sign-payload"})
    ELSE IF fault = "openssl_missing"            \* except FileNotFoundError
    THEN Exit(RaiseMsg("RuntimeError", "OpenSSL executable is required to sign licenses."),
              {"sign-payload", "sign-signature"} \ {"sign-payload", "sign-signature"})
    ELSE IF fault = "openssl_error"
    THEN Exit(Raise("PermissionError"), {"sign-payload", "sign-signature"})
    ELSE IF fault = "openssl_exit"               \* result.returncode != 0
    THEN Exit(RaiseMsg("RuntimeError", "License signing failed via OpenSSL."),
              ({"sign-payload", "sign-signature"} \ {"sign-payload"}) \ {"sign-signature"})
    ELSE IF fault = "read_signature"
    THEN Exit(Raise("OSError"), {"sign-payload", "sign-signature"} \ {"sign-payload"})
    ELSE Exit(Ok(sign_payload(private_key, payload)),
              ({"sign-payload", "sign-signature"} \ {"sign-payload"}) \ {"sign-signature"})

\* Python truthiness of an optional str argument
Truthy(v) == v # PyNone /\ v # PyStr("") /\ v # PyDict(<<>>)

OptionalItem(key, v) == IF Truthy(v) THEN <<Item(key, v)>> ELSE <<>>

Issued(artifact, token) == [artifact |-> artifact, token |-> token]

generate_license_artifact(private_key, tenant, features, issued_at, expires_at, device, key_id, token_id, certificate, algorithm) ==
    LET payload ==
            PyDict(<<Item("tenant", tenant),
                     Item("features", PyList(features)),
                     Item("issued_at", isoformat_utc(issued_at)),
                     Item("expires_at", isoformat_utc(expires_at)),
                     Item("token_id", token_id)>>
                   \o OptionalItem("device", device)
                   \o OptionalItem("key_id", key_id)
                   \o OptionalItem("certificate", certificate))
        signature == sign_payload(private_key, canonicalize_payload(payload))
        artifact ==
            PyDict(<<Item("version", PyInt(1)),
                     Item("algorithm", algorithm),
                     Item("payload", payload),
                     Item("signature", urlsafe_b64encode(signature))>>)
    IN Issued(artifact, encode_license_token(artifact))

\* str.strip() on the feature names of the model
Strip(name) ==
    IF name = " " THEN "" ELSE IF name = " extract" THEN "extract" ELSE name

\* _clean_features: stripped, blanks dropped, first occurrence kept
RECURSIVE _clean_features(_)
_clean_features(features) ==
    IF features = <<>> THEN <<>>
    ELSE LET rest == _clean_features(SubSeq(features, 1, Len(features) - 1))
             name == Strip(features[Len(features)])
         IN IF name = "" \/ \E i \in 1..Len(rest) : rest[i] = PyStr(name)
            THEN rest
            ELSE Append(rest, PyStr(name))

\* build_payload of the CLI: args as parsed by argparse, token_id the uuid4
build_payload(args, issued_at, expires_at, token_id) ==
    LET tenant ==
            PyDict(<<Item("id", args.tenant_id)>>
                   \o OptionalItem("name", args.tenant_name)
                   \o (IF args.meta # <<>>
                       THEN <<Item("metadata", PyDict(args.meta))>> ELSE <<>>))
    IN PyDict(<<Item("tenant", tenant),
                Item("features", PyList(_clean_features(args.feature))),
                Item("issued_at", isoformat_utc(issued_at)),
                Item("expires_at", isoformat_utc(expires_at)),
                Item("token_id", token_id)>>
              \o (IF Truthy(args.device)
                  THEN <<Item("device", PyStr(Strip(args.device.s)))>> ELSE <<>>)
              \o (IF Truthy(args.key_id)
                  THEN <<Item("key_id", PyStr(Strip(args.key_id.s)))>> ELSE <<>>))

\* main of generate_license.py: the artifact and token printed, or SystemExit
generate_license_main(args, issued_at, expires_at, token_id) ==
    IF expires_at <= issued_at
    THEN RaiseMsg("SystemExit", "Expiration must be after the issuance timestamp.")
    ELSE LET payload == build_payload(args, issued_at, expires_at, token_id)
             signature == sign_payload(args.private_key, canonicalize_payload(payload))
             artifact ==
                 PyDict(<<Item("version", PyInt(1)),
                          Item("algorithm", PyStr("ed25519")),
                          Item("payload", payload),
                          Item("signature", urlsafe_b64encode(signature))>>)
         IN Ok(Issued(artifact, encode_license_token(artifact)))

----------------------------------------------------------------------------
(* Approval workflow: scripts/license_workflow.py                          *)

\* an optional command-line argument
Absent == [given |-> FALSE]
Given(v) == [given |-> TRUE, v |-> v]

TIER_MONTHS ==
    [monthly |-> 1, quarterly |-> 3, semester |-> 6, annual |-> 12, biennial |-> 24]

\* add_months for a start in the first days of a January, months = 1: the
\* same day and time of day in February, 31 days on
add_months(start, months) == start + months * 31 * 86400 * TicksPerSecond

\* a stored request; custom_months is 0 when None, id 0 until assigned
LicenseRequest(tenant_id, tier, status, features, certificate_name, custom_months) ==
    [id |-> 0, tenant_id |-> tenant_id, tier |-> tier, status |-> status,
     features |-> features, certificate_name |-> certificate_name,
     custom_months |-> custom_months, decision_at |-> PyNone,
     license_token |-> PyNone, denial_reason |-> PyNone]

resolve_months(req) ==
    IF req.custom_months # 0 THEN Ok(req.custom_months)
    ELSE IF req.tier \notin DOMAIN TIER_MONTHS THEN Raise("SystemExit")
    ELSE Ok(TIER_MONTHS[req.tier])

\* cmd_approve from the resolved timestamps on
approve_issue(req, private_key, issued_at, expires_at, token_id) ==
    Ok(generate_license_artifact(
           private_key, PyDict(<<Item("id", PyStr(req.tenant_id))>>),
           req.features, issued_at, expires_at, PyNone, PyNone, token_id,
           IF req.certificate_name # ""
           THEN PyDict(<<Item("name", PyStr(req.certificate_name))>>)
           ELSE PyNone,
           PyStr("ed25519")))

\* cmd_approve once --issued-at is resolved: --start defaults to issued_at
approve_from(req, private_key, issued_at, start, months, token_id) ==
    approve_issue(req, private_key, issued_at,
                  add_months(IF start.given THEN start.v ELSE issued_at, months),
                  token_id)

\* the mutant: cmd_approve without the check of the request's status
cmd_approve_decided(req, private_key, issued_at, start, now, token_id) ==
    IF ~resolve_months(req).ok THEN resolve_months(req)
    ELSE approve_from(req, private_key,
                      IF issued_at.given THEN issued_at.v ELSE now,
                      start, resolve_months(req).val, token_id)

\* cmd_approve: issued_at and start the --issued-at and --start arguments,
\* now the value of utc_now(), token_id the uuid4
cmd_approve(req, private_key, issued_at, start, now, token_id) ==
    IF req.status # "pending" THEN Raise("SystemExit")
    ELSE IF ~resolve_months(req).ok THEN resolve_months(req)
    ELSE approve_from(req, private_key,
                      IF issued_at.given THEN issued_at.v ELSE now,
                      start, resolve_months(req).val, token_id)

\* how a command ended and the requests in the store file afterwards
Stored(ret, requests) == [ret |-> ret, requests |-> requests]

\* find_request: the position of the first request with that id
find_request(requests, request_id) ==
    IF \E i \in 1..Len(requests) : requests[i].id = request_id
    THEN Ok(CHOOSE i \in 1..Len(requests) :
                /\ requests[i].id = request_id
                /\ \A j \in 1..(i - 1) : requests[j].id # request_id)
    ELSE Raise("SystemExit")

\* cmd_request: id the uuid4 of the new request
cmd_request(requests, args, id) ==
    IF args.duration_months.given /\ args.duration_months.v <= 0
    THEN Stored(RaiseMsg("SystemExit", "--duration-months must be a positive integer."),
                requests)
    ELSE IF args.tier = "custom" /\ ~args.duration_months.given
    THEN Stored(RaiseMsg("SystemExit", "Custom tiers require --duration-months."),
                requests)
    ELSE Stored(Ok(id),
                Append(requests,
                       [LicenseRequest(args.tenant_id, args.tier, "pending",
                                       _clean_features(args.feature),
                                       args.certificate_name,
                                       IF args.duration_months.given
                                       THEN args.duration_months.v ELSE 0)
                        EXCEPT !.id = id]))

\* cmd_approve on the store file: key_exists is private_key.exists(), fault
\* what goes wrong inside sign_payload
cmd_approve_store(requests, request_id, private_key, key_exists, fault, issued_at, start, now, token_id) ==
    LET found == find_request(requests, request_id)
    IN IF ~found.ok THEN Stored(found, requests)
       ELSE LET req == requests[found.val]
                r == cmd_approve(req, private_key, issued_at, start, now, token_id)
                signing ==
                    sign_payload_run(private_key,
                                     canonicalize_payload(GetItem(r.val.artifact, "payload")),
                                     fault)
            IN IF ~r.ok THEN Stored(r, requests)
               ELSE IF ~key_exists
               THEN Stored(RaiseMsg("SystemExit", "Private key not found"), requests)
               ELSE IF ~signing.ret.ok THEN Stored(signing.ret, requests)
               ELSE Stored(Ok(req.id),
                           [requests EXCEPT ![found.val] =
                               [req EXCEPT !.status = "approved",
                                           !.decision_at = now,
                                           !.license_token = r.val.token]])

\* cmd_deny on the store file
cmd_deny(requests, request_id, reason, now) ==
    LET found == find_request(requests, request_id)
    IN IF ~found.ok THEN Stored(found, requests)
       ELSE LET req == requests[found.val]
            IN IF req.status # "pending"
               THEN Stored(Raise("SystemExit"), requests)
               ELSE Stored(Ok(req.id),
                           [requests EXCEPT ![found.val] =
                               [req EXCEPT !.status = "denied",
                                           !.decision_at = now,
                                           !.denial_reason = reason]])

----------------------------------------------------------------------------
(* The license dependency: src/api/security.py                             *)

HTTP(status, detail) ==
    [detail |-> detail, exc |-> "HTTPException", ok |-> FALSE, status |-> status]

\* an unset key setting
NoKey == "-"

\* the public key a verifier holds: the key the PEM file or the PEM text is of
_build_verifier(public_key_path, public_key_data) ==
    IF public_key_data # NoKey THEN Ok(public_key_data)
    ELSE IF public_key_path # NoKey THEN Ok(public_key_path)
    ELSE Raise("RuntimeError")

get_license_verifier(cfg) ==
    IF cfg.license_public_key_path # NoKey
    THEN _build_verifier(cfg.license_public_key_path, NoKey)
    ELSE IF cfg.license_public_key # NoKey
    THEN _build_verifier(NoKey, cfg.license_public_key)
    ELSE Raise("RuntimeError")

\* what require_license_token makes of the outcome of verify_token
license_token_response(payload) ==
    IF payload.ok THEN payload
    ELSE IF payload.exc = "LicenseExpiredError"
    THEN HTTP(401, "License token has expired.")
    ELSE IF payload.exc = "LicenseVerificationError"
    THEN HTTP(401, "License token is invalid.")
    ELSE payload

\* require_license_token: token the X-License header, PyNone when absent
require_license_token(cfg, token, now) ==
    IF ~Truthy(token)
    THEN HTTP(401, "License token is required.")
    ELSE IF ~get_license_verifier(cfg).ok
    THEN HTTP(503, "License verification unavailable.")
    ELSE license_token_response(
             verify_token(get_license_verifier(cfg).val, token, now))

----------------------------------------------------------------------------
(* Settings: src/ai_invoice/config.py, src/api/routers/admin.py            *)

\* the API key the deployment is configured with
ApiKey == "test-secret"

_normalize_optional_str(value) ==
    IF value = NoKey \/ Strip(value) = "" THEN NoKey ELSE Strip(value)

_normalize_str_collection(items) == {Strip(item) : item \in items} \ {""}

\* Settings(...) after __post_init__: the key file is read into
\* license_public_key when only the path is given; no rate limit is set
\* (rate_limit_per_minute None is 0 here)
Settings(api_key, license_public_key_path, license_public_key, license_revoked_jtis, license_revoked_subjects) ==
    [api_key |-> api_key,
     admin_api_key |-> api_key,
     allow_anonymous |-> FALSE,
     rate_limit_per_minute |-> 0,
     rate_limit_burst |-> 0,
     license_public_key_path |-> _normalize_optional_str(license_public_key_path),
     license_public_key |->
         IF _normalize_optional_str(license_public_key_path) # NoKey
            /\ _normalize_optional_str(license_public_key) = NoKey
         THEN _normalize_optional_str(license_public_key_path)
         ELSE _normalize_optional_str(license_public_key),
     license_algorithm |-> "RS256",
     license_revoked_jtis |-> _normalize_str_collection(license_revoked_jtis),
     license_revoked_subjects |-> _normalize_str_collection(license_revoked_subjects)]

\* _apply_settings: every field of the shared instance is set from the new one
\* fields(Settings) in the order of the dataclass
SettingsFields ==
    <<"api_key", "admin_api_key", "allow_anonymous", "license_public_key_path",
      "license_public_key", "license_algorithm", "license_revoked_jtis",
      "license_revoked_subjects", "rate_limit_per_minute", "rate_limit_burst">>

\* the attribute is updated in place: a set keeps its elements and gains
\* the new ones
setattr_merged(obj, name, value) ==
    IF name \in {"license_revoked_jtis", "license_revoked_subjects"}
    THEN [obj EXCEPT ![name] = @ \cup value]
    ELSE [obj EXCEPT ![name] = value]

\* setattr(settings, item.name, value): one reference is replaced
setattr(obj, name, value) == [obj EXCEPT ![name] = value]

_apply_settings(current, new_settings) ==
    [name \in DOMAIN current |-> new_settings[name]]

\* update_persisted_settings + reload_settings with no LICENSE_* environment
\* overrides: the stored document becomes the settings
update_persisted_settings(current, partial) ==
    _apply_settings(current,
        Settings(current.api_key,
                 partial.license_public_key_path, partial.license_public_key,
                 partial.license_revoked_jtis, partial.license_revoked_subjects))

require_admin_token(cfg, x_admin_token) ==
    IF cfg.admin_api_key = NoKey
    THEN HTTP(503, "Administrative API is not configured.")
    ELSE IF x_admin_token = NoKey \/ x_admin_token # cfg.admin_api_key
    THEN HTTP(401, "Invalid admin token.")
    ELSE Ok(PyNone)

SettingsUpdate(cfg, ret) == [settings |-> cfg, ret |-> ret]

\* PUT /admin/settings
update_settings(cfg, document, x_admin_token) ==
    LET admin == require_admin_token(cfg, x_admin_token)
    IN IF ~admin.ok
       THEN SettingsUpdate(cfg, admin)
       ELSE SettingsUpdate(update_persisted_settings(cfg, document), Ok(PyNone))

----------------------------------------------------------------------------
(* Claims and feature gates: src/api/license_validator.py                  *)

LicenseClaims(raw, features) == [raw |-> raw, features |-> features]

MissingPermissions ==
    HTTP(403, "License payload is missing feature permissions.")

\* _normalize_features without its emptiness check
_normalize_features_unchecked(value) ==
    Ok({Strip(value.items[i].s) :
           i \in {j \in 1..(IF IsList(value) THEN Len(value.items) ELSE 0) :
                      value.items[j].t = "str"}} \ {""})

\* _normalize_features: the stripped, non-blank str items of a str or a list
_normalize_features(value) ==
    LET candidates == IF value.t = "str" THEN <<value>>
                      ELSE IF IsList(value) THEN value.items ELSE <<>>
        normalized == {Strip(candidates[i].s) :
                          i \in {j \in 1..Len(candidates) : candidates[j].t = "str"}}
                      \ {""}
    IN IF ~(value.t = "str" \/ IsList(value)) \/ normalized = {}
       THEN MissingPermissions
       ELSE Ok(normalized)

\* build_license_claims(payload, config=...): the revocation rule on
\* token_id and tenant.id, then the non-empty feature set
build_license_claims(payload, config) ==
    IF \/ payload.token_id.s \in config.license_revoked_jtis
       \/ payload.tenant.id.s \in config.license_revoked_subjects
    THEN HTTP(403, "License token revoked.")
    ELSE LET features == _normalize_features(PyList(payload.features))
         IN IF ~features.ok THEN features
            ELSE Ok(LicenseClaims(payload, features.val))

\* a JWT: header and payload segments and who signed them (RS256)
Jwt(header, payload, signer) ==
    [header |-> header, payload |-> payload,
     signature |-> SigBytes(signer, <<header, payload>>), t |-> "jwt"]

InvalidLicenseToken == HTTP(401, "Invalid license token.")

\* the checks of validate_license_token on the decoded payload: expiry,
\* then identifier and revocation, then features
validate_license_payload(payload, cfg, now) ==
    LET exp == DictGet(payload, "exp")
        jti == DictGet(payload, "jti")
        subject == DictGet(payload, "sub")
        features == _normalize_features(DictGet(payload, "features"))
    IN IF exp.t # "int"
       THEN HTTP(403, "License token missing expiry.")
       ELSE IF exp.n * TicksPerSecond < now
       THEN HTTP(403, "License token expired.")
       ELSE IF jti.t # "str" \/ Strip(jti.s) = ""
       THEN HTTP(403, "License token missing identifier.")
       ELSE IF jti.s \in cfg.license_revoked_jtis
       THEN HTTP(403, "License token revoked.")
       ELSE IF subject.t = "str" /\ subject.s \in cfg.license_revoked_subjects
       THEN HTTP(403, "License token revoked.")
       ELSE IF ~features.ok THEN features
       ELSE Ok(LicenseClaims(payload, features.val))

validate_license_token(token, cfg, now) ==
    IF ~Truthy(token)
    THEN HTTP(401, "Missing license token.")
    ELSE IF cfg.license_public_key = NoKey
    THEN HTTP(503, "License verification is not configured.")
    ELSE IF token.t # "jwt"
    THEN InvalidLicenseToken
    ELSE IF ~IsDict(token.header) \/ ~IsDict(token.payload)
    THEN InvalidLicenseToken
    ELSE IF DictGet(token.header, "alg") # PyStr(cfg.license_algorithm)
    THEN InvalidLicenseToken
    ELSE IF token.signature # SigBytes(cfg.license_public_key,
                                       <<token.header, token.payload>>)
    THEN InvalidLicenseToken
    ELSE validate_license_payload(token.payload, cfg, now)

NotPermitted(feature) ==
    IF feature = "classify" THEN "License does not permit 'classify' operations."
    ELSE IF feature = "predict" THEN "License does not permit 'predict' operations."
    ELSE IF feature = "train" THEN "License does not permit 'train' operations."
    ELSE "License does not permit 'extract' operations."

\* ensure_feature without its membership test
ensure_feature_ungated(claims, feature) ==
    IF Strip(feature) = "" THEN Raise("ValueError")
    ELSE IF claims = PyNone
    THEN HTTP(401, "Missing license token.")
    ELSE Ok(claims)

ensure_feature(claims, feature) ==
    IF Strip(feature) = "" THEN Raise("ValueError")
    ELSE IF claims = PyNone
    THEN HTTP(401, "Missing license token.")
    ELSE IF Strip(feature) \notin claims.features
    THEN HTTP(403, NotPermitted(Strip(feature)))
    ELSE Ok(claims)

\* what the middleware leaves on request.state
RequestState(license_claims, trial_error_detail) ==
    [license_claims |-> license_claims, trial_error_detail |-> trial_error_detail]

get_license_claims(state) ==
    IF Strip(state.trial_error_detail) # ""
    THEN HTTP(403, state.trial_error_detail)
    ELSE IF state.license_claims = PyNone
    THEN HTTP(401, "Missing license token.")
    ELSE Ok(state.license_claims)

require_feature_flag(feature, state) ==
    LET claims == get_license_claims(state)
    IN IF ~claims.ok THEN claims ELSE ensure_feature(claims.val, feature)

----------------------------------------------------------------------------
(* The request pipeline: src/api/middleware.py, routers, main.py           *)

\* endpoints: path, whether the router carries Dependencies, feature gate
Endpoint(path, router_dependencies, feature) ==
    [path |-> path, router_dependencies |-> router_dependencies, feature |-> feature]
InvoicesClassify == Endpoint("/invoices/classify", TRUE, "classify")
Predict == Endpoint("/predict", FALSE, "predict")
Health == Endpoint("/health", FALSE, "")
PublicEndpoints ==
    {Endpoint(path, FALSE, "") :
        path \in {"/", "/health", "/health/", "/portal", "/admin", "/static",
                  "/static/app.js"}}

\* a request: X-API-Key (NoKey when absent) and X-License (PyNone when absent)
Request(endpoint, api_key, token) ==
    [method |-> "POST", endpoint |-> endpoint, api_key |-> api_key, token |-> token]

\* the same request sent with another method
WithMethod(request, method) == [request EXCEPT !.method = method]

\* path.rstrip("/") or "/" on the paths of the model
normalized(path) ==
    IF path = "/health/" THEN "/health"
    ELSE IF path = "/static/" THEN "/static"
    ELSE path

\* path.startswith("/static/") on the paths of the model
startswith_static(path) == path \in {"/static/", "/static/app.js"}

_requires_api_key(request) ==
    IF request.method = "OPTIONS" THEN FALSE
    ELSE IF normalized(request.endpoint.path) \in {"/", "/portal", "/admin", "/health"}
    THEN FALSE
    ELSE IF startswith_static(request.endpoint.path)
            \/ normalized(request.endpoint.path) = "/static"
    THEN FALSE
    ELSE TRUE

\* a header value holding the byte 0xE9, which Starlette decodes as latin-1
Latin1Key == "cl[E9]"
isascii(text) == text # Latin1Key

\* hmac.compare_digest of two str: TypeError unless both are ASCII
compare_digest(a, b) ==
    IF isascii(a) /\ isascii(b) THEN Ok(a = b) ELSE Raise("TypeError")

_is_authorized(header_value, config) ==
    IF config.api_key # NoKey
    THEN IF header_value = NoKey THEN Ok(FALSE)
         ELSE compare_digest(config.api_key, header_value)
    ELSE Ok(config.allow_anonymous)

require_api_key(request, cfg) ==
    IF request.endpoint.path = "/health" THEN Ok(PyNone)
    ELSE IF ~_is_authorized(request.api_key, cfg).ok
    THEN _is_authorized(request.api_key, cfg)
    ELSE IF ~_is_authorized(request.api_key, cfg).val THEN HTTP(401, "Unauthorized")
    ELSE Ok(PyNone)

\* one token of a bucket, in the unit tokens are counted in: a bucket gains
\* rate_per_minute / 60 tokens per second, that is rate_per_minute units
\* per tick
TokenUnit == 60 * TicksPerSecond

NoLimiter == [set |-> FALSE]

\* what the limiter answered to an identity: fresh while every request of the
\* identity came at the instant its bucket was created
Admission(fresh, allowed, rejected) ==
    [fresh |-> fresh, allowed |-> allowed, rejected |-> rejected]
NoAdmitted == [identity \in {} |-> Admission(TRUE, 0, FALSE)]
_TokenBucket(tokens, last_refill) == [tokens |-> tokens, last_refill |-> last_refill]

\* a limiter that forgets the burst allowance
TokenBucketLimiter_no_burst(rate_per_minute, burst) ==
    [set |-> TRUE,
     rate_limit_per_minute |-> rate_per_minute,
     rate_limit_burst |-> 0,
     capacity |-> rate_per_minute * TokenUnit,
     _buckets |-> [identity \in {} |-> _TokenBucket(0, 0)]]

TokenBucketLimiter(rate_per_minute, burst) ==
    [set |-> TRUE,
     rate_limit_per_minute |-> rate_per_minute,
     rate_limit_burst |-> IF burst > 0 THEN burst ELSE 0,
     capacity |-> (rate_per_minute + (IF burst > 0 THEN burst ELSE 0)) * TokenUnit,
     _buckets |-> [identity \in {} |-> _TokenBucket(0, 0)]]

_refill(self, bucket, now) ==
    IF now <= bucket.last_refill THEN bucket
    ELSE _TokenBucket(
             IF bucket.tokens + (now - bucket.last_refill) * self.rate_limit_per_minute
                    > self.capacity
             THEN self.capacity
             ELSE bucket.tokens + (now - bucket.last_refill) * self.rate_limit_per_minute,
             now)

\* the bucket of the identity once allow has created or refilled it
allow_bucket(self, identity, now) ==
    IF identity \notin DOMAIN self._buckets
    THEN _TokenBucket(self.capacity, now)
    ELSE _refill(self, self._buckets[identity], now)

allow_taken(self, identity, bucket) ==
    [allowed |-> bucket.tokens >= TokenUnit,
     limiter |->
         [self EXCEPT !._buckets =
             [i \in DOMAIN self._buckets \cup {identity} |->
                 IF i # identity THEN self._buckets[i]
                 ELSE IF bucket.tokens >= TokenUnit
                 THEN _TokenBucket(bucket.tokens - TokenUnit, bucket.last_refill)
                 ELSE bucket]]]

\* TokenBucketLimiter.allow: the answer and the limiter afterwards
allow(self, identity, now) ==
    allow_taken(self, identity, allow_bucket(self, identity, now))

\* APIKeyAndLoggingMiddleware.__init__: the limiter of the instance
middleware_limiter(config) ==
    IF config.rate_limit_per_minute > 0
    THEN TokenBucketLimiter(config.rate_limit_per_minute, config.rate_limit_burst)
    ELSE NoLimiter

\* the identity a request is counted under (the client host is fixed)
_identity_from_request(request) ==
    IF Truthy(request.token)
    THEN [label |-> "license", api_key |-> NoKey, token |-> request.token]
    ELSE IF request.api_key # NoKey
    THEN [label |-> "api_key", api_key |-> request.api_key, token |-> PyNone]
    ELSE [label |-> "client", api_key |-> NoKey, token |-> PyNone]

TrialExpiredDetail ==
    "Trial period has expired. Advanced features are disabled until a license is applied."

\* the response to a request, the claims put on request.state, and the
\* trial file afterwards
\* called: whether call_next was awaited
Handled(status, detail, claims, file) ==
    [status |-> status, detail |-> detail, claims |-> claims, file |-> file,
     called |-> FALSE]

\* the first dependency that fails: the router's require_api_key and
\* require_license_token, then the endpoint's require_feature_flag
first_failure(endpoint, api_key, license, feature) ==
    IF endpoint.router_dependencies /\ ~api_key.ok THEN api_key
    ELSE IF endpoint.router_dependencies /\ ~license.ok THEN license
    ELSE IF endpoint.feature # "" /\ ~feature.ok THEN feature
    ELSE Ok(PyNone)

\* 200, the HTTPException of a dependency, or 500 for any other exception
reply_of(failed) ==
    IF failed.ok THEN [status |-> 200, detail |-> "ok"]
    ELSE IF failed.exc = "HTTPException"
    THEN [status |-> failed.status, detail |-> failed.detail]
    ELSE [status |-> 500, detail |-> "Internal Server Error"]

\* the dependencies and the body of the route
call_next(cfg, request, state, now) ==
    IF request.method = "OPTIONS"
    THEN [status |-> 405, detail |-> "Method Not Allowed"]
    ELSE
    reply_of(first_failure(request.endpoint,
                           require_api_key(request, cfg),
                           require_license_token(cfg, request.token, now),
                           require_feature_flag(request.endpoint.feature, state)))

HandledReply(reply, claims, file) ==
    [Handled(reply.status, reply.detail, claims, file) EXCEPT !.called = TRUE]

Forward(cfg, request, claims, trial_error, file, now) ==
    HandledReply(call_next(cfg, request, RequestState(claims, trial_error), now),
                 claims, file)

\* dispatch once build_license_claims has answered
dispatch_claims(cfg, file, request, now, claims) ==
    IF ~claims.ok
    THEN Handled(claims.status, claims.detail, PyNone, file)
    ELSE Forward(cfg, request, claims.val, "", file, now)

\* dispatch once verify_token has answered
dispatch_payload(cfg, file, request, now, payload) ==
    IF ~payload.ok
    THEN IF payload.exc = "LicenseExpiredError"
         THEN Handled(403, "License token expired.", PyNone, file)
         ELSE IF payload.exc = "LicenseVerificationError"
         THEN Handled(401, "Invalid license token.", PyNone, file)
         ELSE Handled(500, "Internal Server Error", PyNone, file)
    ELSE dispatch_claims(cfg, file, request, now,
                         build_license_claims(payload.val, cfg))

\* the license branch of dispatch: license_public_key_path is set
dispatch_license(cfg, file, request, now) ==
    IF ~Truthy(request.token)
    THEN Handled(401, "Missing license token.", PyNone, file)
    ELSE IF ~get_license_verifier(cfg).ok
    THEN Handled(503, "License verification is not configured.", PyNone, file)
    ELSE dispatch_payload(cfg, file, request, now,
             verify_token(get_license_verifier(cfg).val, request.token, now))

\* dispatch once resolve_trial_claims has answered
dispatch_resolved(cfg, request, now, trial) ==
    IF ~trial.ret.ok
    THEN Handled(500, "Internal Server Error", PyNone, trial.file)
    ELSE Forward(cfg, request,
                 IF trial.ret.val.claims # PyNone
                 THEN LicenseClaims(trial.ret.val.claims, trial.ret.val.status.features)
                 ELSE PyNone,
                 IF trial.ret.val.claims # PyNone THEN "" ELSE TrialExpiredDetail,
                 trial.file, now)

\* the trial branch of dispatch
dispatch_trial(cfg, file, request, now) ==
    dispatch_resolved(cfg, request, now, resolve_trial_claims(file, now))

\* the outcome of dispatch: the response, the limiter afterwards,
\* request.state.rate_limited and whether request.state.identity_hash was
\* set, which is when the limiter was asked
Dispatching(handled, self, rate_limited, identity_hash) ==
    [handled |-> handled, limiter |-> self, rate_limited |-> rate_limited,
     identity_hash |-> identity_hash]

\* dispatch once the API key was accepted and the limiter, if any, answered
dispatch_allowed(cfg, file, request, now, taken) ==
    IF ~taken.allowed
    THEN Dispatching(Handled(429, "Too Many Requests", PyNone, file), taken.limiter,
                     TRUE, taken.limiter.set)
    ELSE Dispatching(IF cfg.license_public_key_path # NoKey
                     THEN dispatch_license(cfg, file, request, now)
                     ELSE dispatch_trial(cfg, file, request, now),
                     taken.limiter, FALSE, taken.limiter.set)

\* dispatch once _is_authorized has answered
dispatch_authorized(cfg, self, file, request, now, authorized) ==
    IF ~authorized.ok
    THEN Dispatching(Handled(500, "Internal Server Error", PyNone, file), self,
                     FALSE, FALSE)
    ELSE IF ~authorized.val
    THEN Dispatching(Handled(401, "Unauthorized", PyNone, file), self, FALSE, FALSE)
    ELSE dispatch_allowed(cfg, file, request, now,
             IF self.set
             THEN allow(self, _identity_from_request(request), now)
             ELSE [allowed |-> TRUE, limiter |-> self])

\* APIKeyAndLoggingMiddleware.dispatch of an instance whose limiter is self
dispatch_limited(cfg, self, file, request, now) ==
    IF ~_requires_api_key(request)
    THEN Dispatching(Forward(cfg, request, PyNone, "", file, now), self, FALSE, FALSE)
    ELSE dispatch_authorized(cfg, self, file, request, now,
                             _is_authorized(request.api_key, cfg))

\* APIKeyAndLoggingMiddleware.dispatch, built without a rate limit
dispatch(cfg, file, request, now) ==
    dispatch_limited(cfg, NoLimiter, file, request, now).handled

----------------------------------------------------------------------------
(* The instants the clock takes and the trial files found at start-up.     *)

Instants ==
    {k * _TRIAL_DURATION + j : k \in 0..MaxPeriods, j \in 0..MaxOffset}
    \cup {k * _TRIAL_DURATION - 1 : k \in 1..MaxPeriods}

TrialFileOf(started, expires) ==
    JsonText(PyDict(<<Item("started_at", started), Item("expires_at", expires)>>))

\* what may lie at the trial path when the process starts: nothing, a file
\* an earlier run wrote, or a damaged file
InitialTrialFiles ==
    {NoFile, JunkBytes,
     JsonText(PyList(<<>>)),
     JsonText(PyDict(<<Item("started_at", isoformat(0))>>)),
     TrialFileOf(PyInt(0), isoformat(_TRIAL_DURATION)),
     TrialFileOf(PyStr("soon"), isoformat(_TRIAL_DURATION)),
     TrialFileOf(isoformat(1), isoformat(1)),
     TrialFileOf(PyTs(0, 0, "Z"), isoformat(_TRIAL_DURATION)),
     _persist_trial(1, 1 + _TRIAL_DURATION)}

NoLicense == [set |-> FALSE]
IssuedBy(signer, source, artifact) ==
    [set |-> TRUE, signer |-> signer, source |-> source, artifact |-> artifact]
\* altered: which parts of the issued artifact the holder changed
Presented(token, altered) == [token |-> token, altered |-> altered]
NoToken == Presented(PyNone, {})
NoVerify == [op |-> "none"]
Verification(now, inner, ret) ==
    [op |-> "require_license_token", now |-> now, inner |-> inner, ret |-> ret]

InitLicense ==
    /\ issued = NoLicense
    /\ presented = NoToken
    /\ verified = NoVerify

NoResponse == [op |-> "none"]

\* a deployment with an API key and no license key
DefaultSettings == Settings(ApiKey, NoKey, NoKey, {}, {})

\* no call in flight, no stored request, no temporary file
InitHost ==
    /\ calls = <<>>
    /\ store = <<>>
    /\ tmp_files = {}

InitService ==
    /\ InitHost
    /\ response = NoResponse
    /\ granted = {}
    /\ limiter = NoLimiter
    /\ admitted = NoAdmitted

NoTrialCall == [op |-> "none"]
\* after_expired: an earlier call had already returned valid = FALSE
TrialCall(op, now, had_file, after_expired, ret) ==
    [op |-> op, now |-> now, had_file |-> had_file,
     after_expired |-> after_expired, ret |-> ret]
NoStatus == [set |-> FALSE]
FirstStatus(status) == [set |-> TRUE, status |-> status]

\* the TrialStatus a trial call returned
StatusOf(op, ret) == IF op = "resolve_trial_claims" THEN ret.val.status ELSE ret.val

TrialReturned == trial_ret.op # "none" /\ trial_ret.ret.ok
LastStatus == StatusOf(trial_ret.op, trial_ret.ret)

RecordTrial(op, had_file, r) ==
    /\ trial_file' = r.file
    /\ trial_ret' = TrialCall(op, clock, had_file,
                              TrialReturned /\ ~LastStatus.valid, r.ret)
    /\ trial_first' = IF ~trial_first.set /\ r.ret.ok
                      THEN FirstStatus(StatusOf(op, r.ret))
                      ELSE trial_first

InitTrial ==
    /\ clock = 0
    /\ trial_file \in InitialTrialFiles
    /\ trial_ret = NoTrialCall
    /\ trial_first = NoStatus
    /\ InitLicense
    /\ settings = DefaultSettings
    /\ InitService

\* time passes
Tick ==
    /\ \E t \in Instants : t > clock /\ clock' = t
    /\ UNCHANGED <<trial_vars, license_vars, service_vars, host_vars>>

GetTrialStatus ==
    /\ RecordTrial("get_trial_status", trial_file.bt # "absent",
                   get_trial_status(trial_file, clock))
    /\ UNCHANGED <<clock, license_vars, service_vars, host_vars>>

ResolveTrialClaims ==
    /\ RecordTrial("resolve_trial_claims", trial_file.bt # "absent",
                   resolve_trial_claims(trial_file, clock))
    /\ UNCHANGED <<clock, license_vars, service_vars, host_vars>>

NextTrial == Tick \/ GetTrialStatus \/ ResolveTrialClaims

SpecTrial == InitTrial /\ [][NextTrial]_vars

----------------------------------------------------------------------------
(* Issuing, altering and verifying license tokens.                         *)

KeyPairs == {"K1", "K2"}
\* the key pair whose public half the service is configured with
TrustedKey == "K1"
VerifierSettings == Settings(ApiKey, TrustedKey, NoKey, {}, {})

IssueInstants == {0, 1}
ExpiryInstants ==
    {1, _TRIAL_DURATION - TicksPerSecond, _TRIAL_DURATION + TicksPerSecond}
TokenId == PyStr("token-1")

\* command lines of generate_license.py
CliArgs ==
    [private_key : {TrustedKey},
     tenant_id : {PyStr("tenant-1")},
     tenant_name : {PyNone},
     meta : {<<>>},
     feature : {<<"extract">>, <<" extract", " ", "extract", "train">>},
     device : {PyNone, PyStr("device-1")},
     key_id : {PyNone}]

\* arguments of generate_license_artifact: private key, device, key_id,
\* certificate, algorithm
LibArgs ==
    {<<"K1", PyNone, PyNone, PyNone, "ed25519">>,
     <<"K1", PyStr("device-1"), PyNone, PyNone, "ed25519">>,
     <<"K1", PyStr("device-1"), PyStr("key-1"), PyNone, "ed25519">>,
     <<"K1", PyNone, PyNone, PyDict(<<Item("name", PyStr("ACME"))>>), "ed25519">>,
     <<"K1", PyNone, PyNone, PyNone, "none">>,
     <<"K2", PyNone, PyNone, PyNone, "ed25519">>}

InitVerify ==
    /\ clock = 0
    /\ trial_file = NoFile
    /\ trial_ret = NoTrialCall
    /\ trial_first = NoStatus
    /\ InitLicense
    /\ settings = VerifierSettings
    /\ InitService

\* python scripts/generate_license.py ...
GenerateLicenseMain ==
    /\ ~issued.set
    /\ \E args \in CliArgs, issued_at \in IssueInstants, expires_at \in ExpiryInstants :
          LET r == generate_license_main(args, issued_at, expires_at, TokenId)
          IN IF r.ok
             THEN /\ issued' = IssuedBy(args.private_key, "cli", r.val.artifact)
                  /\ presented' = Presented(r.val.token, {})
                  /\ verified' = NoVerify
             ELSE UNCHANGED license_vars
    /\ UNCHANGED <<clock, trial_vars, service_vars, host_vars>>

\* a caller of generate_license_artifact
GenerateLicenseArtifact ==
    /\ ~issued.set
    /\ \E args \in LibArgs, issued_at \in IssueInstants, expires_at \in ExpiryInstants :
          LET r == generate_license_artifact(
                       args[1], PyDict(<<Item("id", PyStr("tenant-1"))>>),
                       <<PyStr("extract")>>, issued_at, expires_at,
                       args[2], args[3], TokenId, args[4], PyStr(args[5]))
          IN /\ issued' = IssuedBy(args[1], "lib", r.artifact)
             /\ presented' = Presented(r.token, {})
             /\ verified' = NoVerify
    /\ UNCHANGED <<clock, trial_vars, service_vars, host_vars>>

\* requests in the store of license_workflow.py
StoredRequests ==
    {LicenseRequest("tenant-1", "monthly", "pending", <<PyStr("extract")>>, "", 0),
     LicenseRequest("tenant-1", "monthly", "pending", <<PyStr("extract")>>, "ACME", 0),
     LicenseRequest("tenant-1", "monthly", "approved", <<PyStr("extract")>>, "", 0)}

\* --issued-at and --start of an approval: neither, a later service start, or
\* an issuance dated a month after the service start
ApproveArgs ==
    {<<Absent, Absent>>, <<Absent, Given(1)>>,
     <<Given(add_months(1, 1)), Given(1)>>}

\* python scripts/license_workflow.py approve ...
ApproveRequest ==
    /\ ~issued.set
    /\ \E req \in StoredRequests, args \in ApproveArgs :
          LET r == cmd_approve(req, TrustedKey, args[1], args[2], clock, TokenId)
          IN IF r.ok
             THEN /\ issued' = IssuedBy(TrustedKey, "approve", r.val.artifact)
                  /\ presented' = Presented(r.val.token, {})
                  /\ verified' = NoVerify
             ELSE UNCHANGED license_vars
    /\ UNCHANGED <<clock, trial_vars, service_vars, host_vars>>

\* X-License values that no issuer produced: text that is no base64, and the
\* base64 of bytes that are no JSON, no UTF-8, or JSON that is no object
RawTokens ==
    {PyStr("not-base64"), PyB64(JunkBytes), PyB64(BadUtf8Bytes),
     PyB64(JsonText(PyList(<<>>))), PyB64(JsonText(PyStr("ed25519")))}

\* a client sends such a value before any license is issued
PresentRawToken ==
    /\ ~issued.set
    /\ \E token \in RawTokens :
          /\ presented' = Presented(token, {"token"})
          /\ verified' = NoVerify
    /\ UNCHANGED <<clock, trial_vars, issued, service_vars, host_vars>>

\* the artifact inside the presented token
PresentedArtifact == decode_license_token(presented.token).val

\* the holder re-encodes an altered artifact
Present(artifact, part) ==
    /\ presented' = Presented(encode_license_token(artifact),
                              presented.altered \cup {part})
    /\ verified' = NoVerify
    /\ UNCHANGED <<clock, trial_vars, issued, service_vars, host_vars>>

PayloadChanges ==
    {<<"tenant", PyDict(<<Item("id", PyStr("tampered"))>>)>>,
     <<"tenant", PyDict(<<Item("id", PyInt(5))>>)>>,
     <<"features", PyList(<<PyStr("extract"), PyStr("admin")>>)>>,
     <<"expires_at", PyTs(MaxPeriods * 7 * 86400 + 86400, 0, "Z")>>,
     <<"issued_at", PyInt(0)>>,
     <<"token_id", PyStr("token-2")>>,
     <<"device", PyStr("device-2")>>}

\* a payload field is changed after signing, the signature kept
TamperPayload ==
    /\ issued.set /\ presented.altered = {}
    /\ \E change \in PayloadChanges :
          LET payload == GetItem(issued.artifact, "payload")
              changed == SetItem(payload, change[1], change[2])
          IN /\ changed # payload
             /\ Present(SetItem(issued.artifact, "payload", changed), "payload")

\* a payload field is removed after signing, the signature kept
DropPayloadField ==
    /\ issued.set /\ presented.altered = {}
    /\ \E key \in {"token_id", "features", "device"} :
          LET payload == GetItem(issued.artifact, "payload")
          IN /\ HasKey(payload, key)
             /\ Present(SetItem(issued.artifact, "payload", DelItem(payload, key)),
                        "payload")

HeaderChanges ==
    {<<"algorithm", PyStr("none")>>, <<"algorithm", PyStr("ED25519")>>,
     <<"version", PyInt(2)>>, <<"version", PyBool(TRUE)>>,
     <<"version", PyStr("1")>>}

\* the unsigned header fields are changed
TamperHeader ==
    /\ issued.set /\ presented.altered \subseteq {"signature"}
    /\ \E change \in HeaderChanges :
          /\ SetItem(PresentedArtifact, change[1], change[2]) # PresentedArtifact
          /\ Present(SetItem(PresentedArtifact, change[1], change[2]), "header")

\* a header field is removed
DropHeaderField ==
    /\ issued.set /\ presented.altered \subseteq {"signature"}
    /\ \E key \in {"algorithm", "version"} :
          Present(DelItem(PresentedArtifact, key), "header")

\* the signature field is replaced: no base64, no string, or the signature
\* another key makes over the same payload
TamperSignature ==
    /\ issued.set /\ presented.altered = {}
    /\ \E other \in KeyPairs \ {issued.signer} :
       \E sig \in {PyStr("abc"), PyInt(5),
                   urlsafe_b64encode(sign_payload(other,
                       canonicalize_payload(GetItem(issued.artifact, "payload"))))} :
          Present(SetItem(issued.artifact, "signature", sig), "signature")

\* a call happens at some instant not before the last one
CallAt(now) == now \in Instants /\ now >= clock /\ clock' = now

\* the FastAPI dependency, on a request carrying the presented token; inner
\* is what its call of verify_token came to
RequireLicenseToken ==
    /\ \E now \in Instants :
          /\ CallAt(now)
          /\ verified' = Verification(
                 now,
                 IF Truthy(presented.token)
                 THEN verify_token(get_license_verifier(settings).val,
                                   presented.token, now)
                 ELSE NoVerify,
                 require_license_token(settings, presented.token, now))
    /\ UNCHANGED <<trial_vars, issued, presented, service_vars, host_vars>>

NextVerify ==
    \/ GenerateLicenseMain \/ GenerateLicenseArtifact \/ ApproveRequest
    \/ TamperPayload \/ DropPayloadField
    \/ TamperHeader \/ DropHeaderField \/ TamperSignature
    \/ PresentRawToken \/ RequireLicenseToken

SpecVerify == InitVerify /\ [][NextVerify]_vars

----------------------------------------------------------------------------
(* Encoding, decoding and canonicalizing artifacts built in any key order. *)

\* a dict with its items in the opposite insertion order, at every level
RECURSIVE ReverseKeys(_)
ReverseKeys(v) ==
    IF v.t = "dict"
    THEN PyDict([i \in 1..Len(v.kv) |->
                    Item(v.kv[Len(v.kv) + 1 - i].k,
                         ReverseKeys(v.kv[Len(v.kv) + 1 - i].v))])
    ELSE IF v.t = "list"
    THEN PyList([i \in 1..Len(v.items) |-> ReverseKeys(v.items[i])])
    ELSE v

\* the same map built in another insertion order: as issued, every level
\* reversed, the nested dicts reversed only, or every level sorted
Reordered(order, d) ==
    IF order = "reversed" THEN ReverseKeys(d)
    ELSE IF order = "nested"
    THEN PyDict([i \in 1..Len(d.kv) |-> Item(d.kv[i].k, ReverseKeys(d.kv[i].v))])
    ELSE IF order = "sorted" THEN SortKeys(d)
    ELSE d
Orders == {"issued", "reversed", "nested", "sorted"}

\* command lines whose payloads nest dicts of several keys
CodecArgs ==
    [private_key : {TrustedKey},
     tenant_id : {PyStr("tenant-1")},
     tenant_name : {PyNone, PyStr("ACME")},
     meta : {<<>>, <<Item("plan", PyStr("pro")), Item("admin", PyStr("yes"))>>},
     feature : {<<"extract", "train">>},
     device : {PyNone, PyStr("device-1")},
     key_id : {PyNone, PyStr("key-1")}]

LibraryCall(op, arg, ret) == [op |-> op, arg |-> arg, ret |-> ret]

InitCodec == InitVerify

\* an artifact is issued and held as a map in some insertion order; its
\* token is encode_license_token of that map
EncodeLicenseToken ==
    /\ ~issued.set
    /\ \E args \in CodecArgs, order \in Orders :
          LET artifact == Reordered(order,
                  generate_license_main(args, 0, _TRIAL_DURATION, TokenId).val.artifact)
          IN /\ issued' = IssuedBy(args.private_key, order, artifact)
             /\ presented' = Presented(encode_license_token(artifact), {})
             /\ verified' = NoVerify
    /\ UNCHANGED <<clock, trial_vars, service_vars, host_vars>>

DecodeLicenseToken ==
    /\ issued.set
    /\ response' = LibraryCall("decode_license_token", presented.token,
                               decode_license_token(presented.token))
    /\ UNCHANGED <<clock, trial_vars, license_vars, settings, granted, limiter, admitted, host_vars>>

\* canonicalize_payload of the issued payload built in some insertion order
CanonicalizePayload ==
    /\ issued.set
    /\ \E order \in Orders :
          response' = LibraryCall("canonicalize_payload",
                          Reordered(order, GetItem(issued.artifact, "payload")),
                          canonicalize_payload(
                              Reordered(order, GetItem(issued.artifact, "payload"))))
    /\ UNCHANGED <<clock, trial_vars, license_vars, settings, granted, limiter, admitted, host_vars>>

NextCodec == EncodeLicenseToken \/ DecodeLicenseToken \/ CanonicalizePayload

SpecCodec == InitCodec /\ [][NextCodec]_vars

----------------------------------------------------------------------------
(* The service handling requests while an administrator edits revocation.  *)

ServiceFeatures == <<PyStr("extract"), PyStr("classify"), PyStr("predict")>>
ServiceExpiry == _TRIAL_DURATION + 1

\* a license token as generate_license_artifact issues it
ServiceToken(key, tenant_id, token_id) ==
    generate_license_artifact(key, PyDict(<<Item("id", PyStr(tenant_id))>>),
        ServiceFeatures, 0, ServiceExpiry, PyNone, PyNone, PyStr(token_id),
        PyNone, PyStr("ed25519")).token
GoodToken == ServiceToken(TrustedKey, "tenant-1", "token-1")
OtherToken == ServiceToken(TrustedKey, "tenant-2", "token-2")
ForeignToken == ServiceToken("K2", "tenant-1", "token-1")

\* a token of the trusted key whose payload carries the given features
FeatureToken(features) ==
    generate_license_artifact(TrustedKey, PyDict(<<Item("id", PyStr("tenant-3"))>>),
        features, 0, ServiceExpiry, PyNone, PyNone, PyStr("token-3"),
        PyNone, PyStr("ed25519")).token

Requests ==
    {Request(Health, NoKey, PyNone),
     Request(Predict, ApiKey, FeatureToken(<<>>)),
     Request(Predict, ApiKey, FeatureToken(<<PyStr(" ")>>)),
     Request(Predict, ApiKey, FeatureToken(<<PyStr("extract")>>)),
     Request(InvoicesClassify, NoKey, GoodToken),
     Request(Predict, ApiKey, PyNone),
     Request(Predict, ApiKey, GoodToken)}
    \cup {Request(InvoicesClassify, ApiKey, token) :
             token \in {PyNone, GoodToken, OtherToken, ForeignToken}}

\* the key settings of a deployment: none, a key file, or an inline key only
KeyConfigs == {<<NoKey, NoKey>>, <<TrustedKey, NoKey>>, <<NoKey, TrustedKey>>}

\* revoked token ids and revoked tenant ids an administrator submits
RevocationLists ==
    {<<{}, {}>>, <<{"token-1", " "}, {}>>, <<{}, {" tenant-1"}>>}

\* JWTs handed to validate_license_token
ServiceJwt(signer) ==
    Jwt(PyDict(<<Item("alg", PyStr("RS256"))>>),
        PyDict(<<Item("exp", PyInt(ServiceExpiry \div TicksPerSecond)),
                 Item("jti", PyStr("token-1")),
                 Item("sub", PyStr("tenant-1")),
                 Item("features", PyList(ServiceFeatures))>>),
        signer)
\* a JWT of the trusted key with the given "features" items in its payload
FeatureJwt(features) ==
    Jwt(PyDict(<<Item("alg", PyStr("RS256"))>>),
        PyDict(<<Item("exp", PyInt(ServiceExpiry \div TicksPerSecond)),
                 Item("jti", PyStr("token-3")),
                 Item("sub", PyStr("tenant-3"))>> \o features),
        TrustedKey)
JwtTokens ==
    {PyNone, ServiceJwt(TrustedKey), ServiceJwt("K2"),
     FeatureJwt(<<>>),
     FeatureJwt(<<Item("features", PyList(<<>>))>>),
     FeatureJwt(<<Item("features", PyList(<<PyStr(" "), PyInt(5)>>))>>),
     FeatureJwt(<<Item("features", PyStr("extract"))>>)}

Response(op, request, now, status, detail, claims) ==
    [op |-> op, request |-> request, now |-> now, status |-> status,
     detail |-> detail, claims |-> claims]

\* a request arrives at the current instant or at the next one
ArrivesAt(now) ==
    /\ now \in Instants /\ now >= clock
    /\ \A t \in Instants : ~(clock < t /\ t < now)
    /\ clock' = now

InitMiddleware ==
    /\ clock = 0
    /\ trial_file = NoFile
    /\ trial_ret = NoTrialCall
    /\ trial_first = NoStatus
    /\ InitLicense
    /\ settings \in {Settings(ApiKey, kc[1], kc[2], {}, {}) : kc \in KeyConfigs}
    /\ InitService

\* the state after a request was handled with outcome h
Respond(request, now, h) ==
    /\ trial_file' = h.file
    /\ response' = Response("dispatch", request, now, h.status, h.detail, h.claims)
    /\ granted' = IF h.claims # PyNone /\ settings.license_public_key_path # NoKey
                  THEN granted \cup {request.token}
                  ELSE granted

\* a request passes through the middleware and, if let through, the route
Dispatch ==
    /\ \E request \in Requests, now \in Instants :
          /\ ArrivesAt(now)
          /\ Respond(request, now, dispatch(settings, trial_file, request, now))
    /\ UNCHANGED <<trial_ret, trial_first, license_vars, settings, limiter, admitted, host_vars>>

Updated(u) ==
    /\ settings' = u.settings
    /\ response' = [op |-> "update_settings", ok |-> u.ret.ok]

\* an administrator replaces the revocation lists through PUT /admin/settings
UpdateSettings ==
    /\ \E lists \in RevocationLists, x_admin_token \in {ApiKey, "wrong"} :
          Updated(update_settings(settings,
                      [license_public_key_path |-> settings.license_public_key_path,
                       license_public_key |-> settings.license_public_key,
                       license_revoked_jtis |-> lists[1],
                       license_revoked_subjects |-> lists[2]],
                      x_admin_token))
    /\ UNCHANGED <<clock, trial_vars, license_vars, granted, limiter, admitted, host_vars>>

Validated(token, now, r) ==
    response' = Response("validate_license_token", Request(Health, NoKey, token), now,
                         IF r.ok THEN 200 ELSE r.status,
                         IF r.ok THEN "ok" ELSE r.detail,
                         IF r.ok THEN r.val ELSE PyNone)

\* a caller of validate_license_token with the shared settings
ValidateLicenseToken ==
    /\ \E token \in JwtTokens, now \in Instants :
          /\ ArrivesAt(now)
          /\ Validated(token, now, validate_license_token(token, settings, now))
    /\ UNCHANGED <<trial_vars, license_vars, settings, granted, limiter, admitted, host_vars>>

\* claims and feature names handed to ensure_feature
ClaimsInputs ==
    {PyNone,
     LicenseClaims(PyDict(<<>>), {"extract"}),
     LicenseClaims(PyDict(<<>>), {"extract", "classify", "predict"})}
FeatureNames == {"classify", "predict", " extract", "train", " ", ""}

\* a caller of ensure_feature
EnsureFeature ==
    /\ \E claims \in ClaimsInputs, feature \in FeatureNames :
          response' = [op |-> "ensure_feature", claims |-> claims,
                       feature |-> feature, ret |-> ensure_feature(claims, feature)]
    /\ UNCHANGED <<clock, trial_vars, license_vars, settings, granted, limiter, admitted, host_vars>>

NextMiddleware ==
    Dispatch \/ UpdateSettings \/ ValidateLicenseToken \/ EnsureFeature

SpecMiddleware == InitMiddleware /\ [][NextMiddleware]_vars

----------------------------------------------------------------------------
(* The middleware of a deployment with a rate limit.                       *)

\* deployments: the API key with or without a license key file, the same
\* with a limit of one request per minute and a burst of one, and an
\* anonymous deployment
GateSettings ==
    {Settings(ApiKey, key_path, NoKey, {}, {}) : key_path \in {NoKey, TrustedKey}}
    \cup {[Settings(ApiKey, TrustedKey, NoKey, {}, {}) EXCEPT
              !.rate_limit_per_minute = 1, !.rate_limit_burst = 1]}
    \cup {[Settings(NoKey, TrustedKey, NoKey, {}, {}) EXCEPT !.allow_anonymous = TRUE]}

GateRequests ==
    {Request(Predict, api_key, GoodToken) : api_key \in {ApiKey, NoKey, "wrong", Latin1Key}}
    \cup {Request(Predict, ApiKey, PyNone),
          Request(Health, NoKey, PyNone)}

InitGate ==
    /\ clock = 0
    /\ trial_file = NoFile
    /\ trial_ret = NoTrialCall
    /\ trial_first = NoStatus
    /\ InitLicense
    /\ settings \in GateSettings
    /\ response = NoResponse
    /\ granted = {}
    /\ limiter = middleware_limiter(settings)
    /\ admitted = NoAdmitted
    /\ InitHost

GateResponse(request, now, d) ==
    [op |-> "dispatch", request |-> request, now |-> now,
     status |-> d.handled.status, detail |-> d.handled.detail,
     claims |-> d.handled.claims, called |-> d.handled.called,
     rate_limited |-> d.rate_limited]

\* the answers to the identity so far, given the bucket it had before
Answered(identity, now) ==
    IF identity \notin DOMAIN limiter._buckets THEN Admission(TRUE, 0, FALSE)
    ELSE IF now > limiter._buckets[identity].last_refill
    THEN Admission(FALSE, 0, FALSE)
    ELSE admitted[identity]

Admit(before, allowed) ==
    IF ~before.fresh THEN before
    ELSE Admission(TRUE,
                   IF allowed THEN before.allowed + 1 ELSE before.allowed,
                   before.rejected \/ ~allowed)

Passed(request, now, d) ==
    /\ trial_file' = d.handled.file
    /\ response' = GateResponse(request, now, d)
    /\ limiter' = d.limiter
    /\ admitted' =
          IF ~d.identity_hash THEN admitted
          ELSE [i \in DOMAIN admitted \cup {_identity_from_request(request)} |->
                   IF i # _identity_from_request(request) THEN admitted[i]
                   ELSE Admit(Answered(i, now), ~d.rate_limited)]

\* a request passes through the middleware instance and its limiter
DispatchLimited ==
    /\ \E request \in GateRequests, now \in Instants :
          /\ ArrivesAt(now)
          /\ Passed(request, now,
                    dispatch_limited(settings, limiter, trial_file, request, now))
    /\ UNCHANGED <<trial_ret, trial_first, license_vars, settings, granted, host_vars>>

NextGate == DispatchLimited

SpecGate == InitGate /\ [][NextGate]_vars

----------------------------------------------------------------------------
(* Requests of every kind to deployments with and without a license key.   *)

\* a deployment on the trial fallback, the same with a limit of one request
\* per minute, and a deployment with a license key file
TrialStartSettings ==
    {Settings(ApiKey, NoKey, NoKey, {}, {}),
     [Settings(ApiKey, NoKey, NoKey, {}, {}) EXCEPT !.rate_limit_per_minute = 1],
     Settings(ApiKey, TrustedKey, NoKey, {}, {})}

TrialStartRequests ==
    {Request(InvoicesClassify, ApiKey, PyNone),
     Request(Predict, ApiKey, PyNone),
     Request(Predict, "wrong", PyNone),
     WithMethod(Request(Predict, NoKey, PyNone), "OPTIONS")}
    \cup {Request(endpoint, NoKey, PyNone) : endpoint \in PublicEndpoints}

InitTrialStart ==
    /\ clock = 0
    /\ trial_file = NoFile
    /\ trial_ret = NoTrialCall
    /\ trial_first = NoStatus
    /\ InitLicense
    /\ settings \in TrialStartSettings
    /\ response = NoResponse
    /\ granted = {}
    /\ limiter = middleware_limiter(settings)
    /\ admitted = NoAdmitted
    /\ InitHost

\* a request passes through the middleware instance and its limiter
DispatchRequest ==
    /\ \E request \in TrialStartRequests, now \in Instants :
          /\ ArrivesAt(now)
          /\ Passed(request, now,
                    dispatch_limited(settings, limiter, trial_file, request, now))
    /\ UNCHANGED <<trial_ret, trial_first, license_vars, settings, granted, host_vars>>

NextTrialStart == DispatchRequest

SpecTrialStart == InitTrialStart /\ [][NextTrialStart]_vars

----------------------------------------------------------------------------
(* get_trial_status called by two workers sharing the trial file.          *)

TrialCallers == {"worker-1", "worker-2"}

Idle == [pc |-> "idle"]
\* a call of get_trial_status: where it stands, its current_time, the file
\* content it read and the outcome it computed from it
TrialCallAt(pc, now, seen, out) == [pc |-> pc, now |-> now, seen |-> seen, out |-> out]

InitConcurrentTrial ==
    /\ clock = 0
    /\ trial_file = NoFile
    /\ trial_ret = NoTrialCall
    /\ trial_first = NoStatus
    /\ InitLicense
    /\ settings = DefaultSettings
    /\ response = NoResponse
    /\ granted = {}
    /\ limiter = NoLimiter
    /\ admitted = NoAdmitted
    /\ calls = [p \in TrialCallers |-> Idle]
    /\ store = <<>>
    /\ tmp_files = {}

Step(p, call) ==
    /\ calls' = [calls EXCEPT ![p] = call]
    /\ UNCHANGED <<clock, trial_ret, trial_first, license_vars, service_vars,
                   store, tmp_files>>

\* get_trial_status takes current_time
BeginCall(p) ==
    /\ calls[p].pc = "idle"
    /\ Step(p, TrialCallAt("exists", clock, NoFile, TrialOutcome(NoFile, Ok(PyNone))))
    /\ UNCHANGED trial_file

\* path.exists(): _initialize_trial when there is no file, else _load_trial
PathExists(p) ==
    /\ calls[p].pc = "exists"
    /\ Step(p, IF trial_file.bt = "absent"
               THEN TrialCallAt("open", calls[p].now, NoFile,
                                _initialize_trial(calls[p].now))
               ELSE [calls[p] EXCEPT !.pc = "read"])
    /\ UNCHANGED trial_file

\* _load_trial reads the file: it returns the stored window or goes on to
\* _initialize_trial
ReadText(p) ==
    /\ calls[p].pc = "read"
    /\ Step(p, TrialCallAt(
                 IF _load_trial(trial_file, calls[p].now).file # trial_file
                 THEN "open" ELSE "done",
                 calls[p].now, trial_file, _load_trial(trial_file, calls[p].now)))
    /\ UNCHANGED trial_file

\* _persist_trial: path.write_text opens the file, which truncates it
OpenForWrite(p) ==
    /\ calls[p].pc = "open"
    /\ trial_file' = EmptyFile
    /\ Step(p, [calls[p] EXCEPT !.pc = "write"])

\* path.write_text writes the text and closes the file
WriteText(p) ==
    /\ calls[p].pc = "write"
    /\ trial_file' = calls[p].out.file
    /\ Step(p, [calls[p] EXCEPT !.pc = "done"])

TimePasses ==
    /\ \E t \in Instants : t > clock /\ clock' = t
    /\ UNCHANGED <<trial_vars, license_vars, service_vars, host_vars>>

NextConcurrentTrial ==
    \/ TimePasses
    \/ \E p \in TrialCallers : BeginCall(p)
    \/ \E p \in TrialCallers : PathExists(p)
    \/ \E p \in TrialCallers : ReadText(p)
    \/ \E p \in TrialCallers : OpenForWrite(p)
    \/ \E p \in TrialCallers : WriteText(p)

SpecConcurrentTrial == InitConcurrentTrial /\ [][NextConcurrentTrial]_vars

----------------------------------------------------------------------------
(* PUT /admin/settings in the thread pool while a request is verified.     *)

\* revocation lists the administrator submits one after the other
ConcurrentLists ==
    {<<{}, {}>>, <<{"token-1"}, {"tenant-1"}>>, <<{"token-2"}, {"tenant-2"}>>}

\* the update in flight: the settings before it, the new Settings instance
\* and the fields _apply_settings has still to set
Applying(pc, before, new_settings, pending) ==
    [pc |-> pc, before |-> before, new |-> new_settings, pending |-> pending]

\* what a request read from the shared settings, with the sets before and
\* after the update in flight at that moment
Observation(value, pre, post) == [value |-> value, pre |-> pre, post |-> post]
Unread == Observation({}, {}, {})
Verifying(pc, jtis, subjects) == [pc |-> pc, jtis |-> jtis, subjects |-> subjects]

InitConcurrentSettings ==
    /\ clock = 0
    /\ trial_file = NoFile
    /\ trial_ret = NoTrialCall
    /\ trial_first = NoStatus
    /\ InitLicense
    /\ settings = Settings(ApiKey, TrustedKey, NoKey, {}, {})
    /\ response = NoResponse
    /\ granted = {}
    /\ limiter = NoLimiter
    /\ admitted = NoAdmitted
    /\ calls = [admin |-> Applying("idle", settings, settings, <<>>),
                reader |-> Verifying("idle", Unread, Unread)]
    /\ store = <<>>
    /\ tmp_files = {}

\* update_settings: the new Settings instance is built from the document
BeginUpdate ==
    /\ calls.admin.pc = "idle"
    /\ \E lists \in ConcurrentLists :
          calls' = [calls EXCEPT !.admin =
              Applying("apply", settings,
                  update_settings(settings,
                      [license_public_key_path |-> settings.license_public_key_path,
                       license_public_key |-> settings.license_public_key,
                       license_revoked_jtis |-> lists[1],
                       license_revoked_subjects |-> lists[2]],
                      ApiKey).settings,
                  SettingsFields)]
    /\ UNCHANGED <<clock, trial_vars, license_vars, service_vars, store, tmp_files>>

\* one turn of the loop of _apply_settings
ApplyField ==
    /\ calls.admin.pc = "apply"
    /\ settings' = setattr(settings, Head(calls.admin.pending),
                           calls.admin.new[Head(calls.admin.pending)])
    /\ calls' = [calls EXCEPT !.admin =
                    Applying(IF Len(calls.admin.pending) = 1 THEN "idle" ELSE "apply",
                             calls.admin.before, calls.admin.new,
                             Tail(calls.admin.pending))]
    /\ UNCHANGED <<clock, trial_vars, license_vars, response, granted, limiter,
                   admitted, store, tmp_files>>

\* a request reaches the revocation test
BeginVerify ==
    /\ calls.reader.pc \in {"idle", "done"}
    /\ calls' = [calls EXCEPT !.reader = Verifying("jtis", Unread, Unread)]
    /\ UNCHANGED <<clock, trial_vars, license_vars, service_vars, store, tmp_files>>

\* jti in cfg.license_revoked_jtis
ReadRevokedJtis ==
    /\ calls.reader.pc = "jtis"
    /\ calls' = [calls EXCEPT !.reader =
                    Verifying("subjects",
                              Observation(settings.license_revoked_jtis,
                                          calls.admin.before.license_revoked_jtis,
                                          calls.admin.new.license_revoked_jtis),
                              Unread)]
    /\ UNCHANGED <<clock, trial_vars, license_vars, service_vars, store, tmp_files>>

\* subject in cfg.license_revoked_subjects
ReadRevokedSubjects ==
    /\ calls.reader.pc = "subjects"
    /\ calls' = [calls EXCEPT !.reader =
                    Verifying("done", calls.reader.jtis,
                              Observation(settings.license_revoked_subjects,
                                          calls.admin.before.license_revoked_subjects,
                                          calls.admin.new.license_revoked_subjects))]
    /\ UNCHANGED <<clock, trial_vars, license_vars, service_vars, store, tmp_files>>

NextConcurrentSettings ==
    BeginUpdate \/ ApplyField \/ BeginVerify \/ ReadRevokedJtis \/ ReadRevokedSubjects

SpecConcurrentSettings == InitConcurrentSettings /\ [][NextConcurrentSettings]_vars

----------------------------------------------------------------------------
(* Signing and verifying through OpenSSL, with the failures of the host.   *)

SignedText == canonicalize_payload(PyDict(<<Item("token_id", TokenId)>>))

InitTempFiles == InitVerify

Called(op, args, r) ==
    [op |-> op, args |-> args, ret |-> r.ret, left |-> r.left]

SignPayload ==
    \E private_key \in KeyPairs, fault \in SignFaults :
        LET r == sign_payload_run(private_key, SignedText, fault)
        IN /\ response' = Called("sign_payload", <<private_key, fault>>, r)
           /\ tmp_files' = tmp_files \cup r.left
           /\ UNCHANGED <<clock, trial_vars, license_vars, settings, granted,
                          limiter, admitted, calls, store>>

VerifySignature ==
    \E key_source \in {"path", "data"}, signer \in KeyPairs, fault \in VerifyFaults :
        LET r == _verify_signature_run(key_source, TrustedKey, SignedText,
                                       sign_payload(signer, SignedText), fault)
        IN /\ response' = Called("_verify_signature", <<key_source, signer, fault>>, r)
           /\ tmp_files' = tmp_files \cup r.left
           /\ UNCHANGED <<clock, trial_vars, license_vars, settings, granted,
                          limiter, admitted, calls, store>>

NextTempFiles == SignPayload \/ VerifySignature

SpecTempFiles == InitTempFiles /\ [][NextTempFiles]_vars

----------------------------------------------------------------------------
(* The request store of license_workflow.py, one command at a time.        *)

\* requests the store file holds at most
MaxRequests == 2

\* command lines of the request command
RequestArgs ==
    {[tenant_id |-> "tenant-1", tier |-> a[1], duration_months |-> a[2],
      feature |-> <<"extract">>, certificate_name |-> ""] :
        a \in {<<"monthly", Absent>>, <<"monthly", Given(0)>>,
                <<"custom", Absent>>, <<"custom", Given(1)>>}}

\* ids a command line can name: those handed out and one never handed out
RequestIds == 1..(MaxRequests + 1)

TokenIds == {TokenId, PyStr("token-2")}

DenialReasons == {PyStr("unpaid"), PyStr("duplicate")}

InitWorkflow == InitVerify

Command(op, request_id, key_exists, fault, r) ==
    [op |-> op, request_id |-> request_id, key_exists |-> key_exists,
     fault |-> fault, ok |-> r.ret.ok]

\* python scripts/license_workflow.py request ...: the uuid4 is an id no
\* request carries yet
CmdRequest ==
    /\ Len(store) < MaxRequests
    /\ \E args \in RequestArgs :
          LET r == cmd_request(store, args, Len(store) + 1)
          IN /\ store' = r.requests
             /\ response' = Command("request", Len(store) + 1, TRUE, "none", r)
    /\ UNCHANGED <<clock, trial_vars, license_vars, settings, granted, limiter,
                   admitted, calls, tmp_files>>

\* python scripts/license_workflow.py approve ...
CmdApprove ==
    \E request_id \in RequestIds, key_exists \in BOOLEAN,
       fault \in {"none", "openssl_exit"}, token_id \in TokenIds :
        LET r == cmd_approve_store(store, request_id, TrustedKey, key_exists,
                                   fault, Absent, Absent, clock, token_id)
        IN /\ store' = r.requests
           /\ response' = Command("approve", request_id, key_exists, fault, r)
           /\ UNCHANGED <<clock, trial_vars, license_vars, settings, granted,
                          limiter, admitted, calls, tmp_files>>

\* python scripts/license_workflow.py deny ...
CmdDeny ==
    \E request_id \in RequestIds, reason \in DenialReasons :
        LET r == cmd_deny(store, request_id, reason, clock)
        IN /\ store' = r.requests
           /\ response' = Command("deny", request_id, TRUE, "none", r)
           /\ UNCHANGED <<clock, trial_vars, license_vars, settings, granted,
                          limiter, admitted, calls, tmp_files>>

NextWorkflow == CmdRequest \/ CmdApprove \/ CmdDeny

SpecWorkflow == InitWorkflow /\ [][NextWorkflow]_vars

----------------------------------------------------------------------------
(* Claims about issued, altered and verified tokens.                       *)

IssuedPayload == GetItem(issued.artifact, "payload")
IssuedExpiry == fromisoformat(GetItem(IssuedPayload, "expires_at")).val
IssuedAsEd25519 == GetItem(issued.artifact, "algorithm") = PyStr("ed25519")
Verified == verified.op # "none" /\ issued.set

\* the typed payload carries every field of the issued payload dict, the
\* timestamps as the instants their strings denote
PayloadEquals(payload, obj) ==
    /\ Keys(obj) \subseteq LicensePayloadFields
    /\ payload.tenant.id = GetItem(GetItem(obj, "tenant"), "id")
    /\ payload.tenant.name = DictGet(GetItem(obj, "tenant"), "name")
    /\ payload.features = GetItem(obj, "features").items
    /\ payload.issued_at = fromisoformat(GetItem(obj, "issued_at")).val
    /\ payload.expires_at = fromisoformat(GetItem(obj, "expires_at")).val
    /\ payload.device = DictGet(obj, "device")
    /\ payload.token_id = GetItem(obj, "token_id")
    /\ payload.key_id = DictGet(obj, "key_id")

\* C1 (tamper detection): when a payload field of a token signed with the
\* trusted private key was changed or removed after signing and the artifact
\* re-encoded with the original signature, verification never returns a
\* payload: verify_token raises LicenseVerificationError, with the message
\* "License signature is invalid." whenever the artifact was issued under
\* the supported algorithm tag, and the dependency answers 401 "License
\* token is invalid."
C1_TamperDetected ==
    (Verified /\ presented.altered = {"payload"} /\ issued.signer = TrustedKey)
    => /\ ~verified.inner.ok
       /\ verified.inner.exc = "LicenseVerificationError"
       /\ IssuedAsEd25519 => verified.inner.msg = "License signature is invalid."
       /\ verified.ret = HTTP(401, "License token is invalid.")

\* a token whose tenant.id was changed is verified while the issued license
\* is still unexpired, and is refused for its signature
C1_Witness ==
    /\ Verified /\ presented.altered = {"payload"} /\ issued.signer = TrustedKey
    /\ GetItem(GetItem(PresentedArtifact, "payload"), "tenant")
          = PyDict(<<Item("id", PyStr("tampered"))>>)
    /\ verified.now < IssuedExpiry
    /\ ~verified.inner.ok
    /\ verified.inner.msg = "License signature is invalid."
    /\ verified.ret = HTTP(401, "License token is invalid.")

\* C2 (sign/verify correctness): an unaltered token issued by the CLI or by
\* generate_license_artifact under the trusted key, whatever optional fields
\* (device, key_id, certificate) its payload carries, verifies at every
\* instant before its expires_at, and the payload returned equals the
\* issued one
C2_SignVerifyCorrect ==
    (/\ Verified /\ presented.altered = {} /\ issued.signer = TrustedKey
     /\ IssuedAsEd25519
     /\ verified.now < IssuedExpiry)
    => /\ verified.inner.ok
       /\ PayloadEquals(verified.inner.val, IssuedPayload)
       /\ verified.ret = verified.inner

\* C3 (algorithm confusion): every artifact whose algorithm is not exactly
\* "ed25519" or whose version is not exactly 1 is refused with
\* LicenseVerificationError and no payload is returned, whatever its
\* signature field holds
C3_AlgorithmConfusion ==
    (/\ Verified
     /\ \/ DictGet(PresentedArtifact, "algorithm") # PyStr("ed25519")
        \/ DictGet(PresentedArtifact, "version") # PyInt(1))
    => /\ ~verified.inner.ok
       /\ verified.inner.exc = "LicenseVerificationError"

\* C12 (expired is surfaced distinctly): when verify_token finds an
\* authentic token past its expiry (LicenseExpiredError), the
\* require_license_token dependency answers with status 403 and an "expired"
\* detail, not with the 401 it uses for malformed or forged tokens
C12_ExpiredSurfacedDistinctly ==
    (/\ Verified
     /\ ~verified.inner.ok
     /\ verified.inner.exc = "LicenseExpiredError")
    => /\ ~verified.ret.ok
       /\ verified.ret.status = 403
       /\ verified.ret.detail = "License token has expired."

IssuedAt == fromisoformat(GetItem(IssuedPayload, "issued_at")).val

\* C13 (issuance invariant): every artifact issued by generate_license.py,
\* by license_workflow.py approve or by generate_license_artifact carries an
\* expires_at strictly after its issued_at
C13_ExpiresAfterIssued ==
    issued.set => IssuedExpiry > IssuedAt

\* an unaltered token of the trusted key whose payload the verifier's
\* schema accepts
VerifiedGenuine ==
    /\ Verified /\ presented.altered = {} /\ issued.signer = TrustedKey
    /\ IssuedAsEd25519
    /\ Keys(IssuedPayload) \subseteq LicensePayloadFields

\* C16 (expiry boundary): verify_token raises LicenseExpiredError for a
\* genuine token whose expires_at is one second before the instant of the
\* call, and returns its payload when expires_at is one second after it
C16_ExpiryBoundary ==
    /\ (VerifiedGenuine /\ IssuedExpiry = verified.now - TicksPerSecond)
       => verified.inner = LicenseExpired
    /\ (VerifiedGenuine /\ IssuedExpiry = verified.now + TicksPerSecond)
       => /\ verified.inner.ok
          /\ verified.inner.val.expires_at = IssuedExpiry

\* a genuine token verified one second after its expires_at is refused
C16_Witness ==
    /\ VerifiedGenuine
    /\ IssuedExpiry = verified.now - TicksPerSecond
    /\ verified.inner = LicenseExpired

\* a genuine token verified one second before its expires_at is accepted
C16_WitnessBefore ==
    /\ VerifiedGenuine
    /\ IssuedExpiry = verified.now + TicksPerSecond
    /\ verified.inner.ok

\* C27 (exact expiry instant): a genuine token whose expires_at equals the
\* instant of the call is rejected as expired (expired when expires_at <= now)
C27_ExactExpiryInstant ==
    (VerifiedGenuine /\ IssuedExpiry = verified.now)
    => verified.inner = LicenseExpired

\* verify_token was called and raised LicenseExpiredError
ReportedExpired ==
    /\ verified.op = "require_license_token"
    /\ Truthy(presented.token)
    /\ ~verified.inner.ok
    /\ verified.inner.exc = "LicenseExpiredError"

\* the signature field of the presented artifact is the signature of the
\* verifier's key pair over the canonical bytes of its payload
SignatureVerifies ==
    /\ decode_license_token(presented.token).ok
    /\ IsDict(DictGet(PresentedArtifact, "payload"))
    /\ IsStr(DictGet(PresentedArtifact, "signature"))
    /\ urlsafe_b64decode(DictGet(PresentedArtifact, "signature")).ok
    /\ urlsafe_b64decode(DictGet(PresentedArtifact, "signature")).val
          = SigBytes(get_license_verifier(settings).val,
                     _canonical_json(DictGet(PresentedArtifact, "payload")))

\* C22 (expiry is checked only after authenticity): verify_token raises
\* LicenseExpiredError only for a token whose signature verifies over the
\* canonical payload bytes and whose payload passes schema validation; a
\* token whose signature does not verify is never reported as expired
C22_ExpiryAfterAuthenticity ==
    /\ ReportedExpired
       => /\ SignatureVerifies
          /\ LicensePayload_model_validate(DictGet(PresentedArtifact, "payload")).ok
    /\ (verified.op = "require_license_token" /\ Truthy(presented.token)
        /\ ~SignatureVerifies)
       => ~ReportedExpired

\* a token past its expires_at whose signature was replaced is refused for
\* its signature, and one left intact is reported as expired
C22_Witness ==
    /\ Verified /\ presented.altered = {"signature"}
    /\ IssuedExpiry < verified.now
    /\ LicensePayload_model_validate(DictGet(PresentedArtifact, "payload")).ok
    /\ ~SignatureVerifies
    /\ ~verified.inner.ok
    /\ verified.inner.exc = "LicenseVerificationError"

C22_WitnessExpired == ReportedExpired /\ SignatureVerifies

\* C17 (typed errors only): for every token handed to the verifier,
\* decode_license_token and verify_token return a value or raise
\* LicenseVerificationError or LicenseExpiredError, nothing else
C17_TypedErrorsOnly ==
    (verified.op # "none" /\ Truthy(presented.token))
    => /\ \/ decode_license_token(presented.token).ok
          \/ IsLVE(decode_license_token(presented.token))
       /\ verified.inner.ok \/ IsLVE(verified.inner)

Decoded == response.op = "decode_license_token"
Canonicalized == response.op = "canonicalize_payload"

SignedBytes == urlsafe_b64decode(GetItem(issued.artifact, "signature")).val.msg

\* C19 (canonical encoding is order-independent): canonicalize_payload of a
\* map equal to the issued payload, whatever the insertion order of its keys
\* at any level, returns the bytes of the issued payload, which are the
\* bytes that were signed
C19_CanonicalOrderIndependent ==
    (Canonicalized /\ PyEq(response.arg, IssuedPayload))
    => /\ response.ret = canonicalize_payload(IssuedPayload)
       /\ response.ret = SignedBytes

\* a payload whose nested tenant dict was built in another order
C19_Witness ==
    /\ Canonicalized
    /\ PyEq(response.arg, IssuedPayload)
    /\ GetItem(response.arg, "tenant") # GetItem(IssuedPayload, "tenant")
    /\ response.ret = SignedBytes

\* C30 (trial start precondition): the trial file is created or rewritten
\* only while dispatching a request on a protected path that passed the API
\* key check and the rate limit, in a deployment with no license key path;
\* requests to public paths or with the method OPTIONS, and requests answered
\* 401 or 429, leave the trial file as it was
C30_TrialStartPrecondition ==
    [][/\ trial_file' # trial_file
          => /\ response'.op = "dispatch"
             /\ _requires_api_key(response'.request)
             /\ _is_authorized(response'.request.api_key, settings) = Ok(TRUE)
             /\ ~response'.rate_limited
             /\ settings.license_public_key_path = NoKey
       /\ (/\ response'.op = "dispatch"
           /\ \/ ~_requires_api_key(response'.request)
              \/ response'.status \in {401, 429})
          => trial_file' = trial_file
      ]_vars

\* C26 (temp-file cleanup): after sign_payload or _verify_signature has
\* returned or raised, on every exit path, none of the temporary payload,
\* signature or key files it created remains on disk
C26_TempFilesRemoved ==
    /\ tmp_files = {}
    /\ response.op \in {"sign_payload", "_verify_signature"} => response.left = {}

\* the request a decision command names is in the store and not pending
NamesDecided(requests, request_id) ==
    \E i \in 1..Len(requests) :
        requests[i].id = request_id /\ requests[i].status # "pending"

\* C29 (license request lifecycle): a stored request's status changes only
\* from pending to approved or from pending to denied; approve or deny on a
\* request that is not pending, and an approve whose key check or signing
\* fails, ends with an error and leaves the stored requests unchanged; a
\* decided request never changes again and an approved request carries a
\* license token
C29_RequestLifecycle ==
    [][/\ Len(store') >= Len(store)
       /\ \A i \in 1..Len(store) :
             /\ store'[i].id = store[i].id
             /\ store'[i].status # store[i].status
                => /\ store[i].status = "pending"
                   /\ store'[i].status \in {"approved", "denied"}
             /\ store[i].status # "pending" => store'[i] = store[i]
       /\ (/\ response'.op \in {"approve", "deny"}
           /\ \/ NamesDecided(store, response'.request_id)
              \/ ~response'.key_exists
              \/ response'.fault # "none")
          => ~response'.ok /\ store' = store
       /\ ~response'.ok => store' = store
       /\ \A i \in 1..Len(store') :
             store'[i].status = "approved" => store'[i].license_token # PyNone
      ]_vars

\* an approved request holding its token was named by a second approve, which
\* failed
C29_Witness ==
    /\ response.op = "approve"
    /\ ~response.ok
    /\ response.key_exists
    /\ response.fault = "none"
    /\ \E i \in 1..Len(store) :
          /\ store[i].id = response.request_id
          /\ store[i].status = "approved"
          /\ store[i].license_token # PyNone

\* a pending request outlived an approve whose signing failed
C29_WitnessSigning ==
    /\ response.op = "approve"
    /\ ~response.ok
    /\ response.key_exists
    /\ response.fault # "none"
    /\ \E i \in 1..Len(store) :
          store[i].id = response.request_id /\ store[i].status = "pending"

----------------------------------------------------------------------------
(* Claims about requests, revocation and the trial fallback.               *)

Dispatched == response.op = "dispatch"
\* the request needed an API key and carried the right one
Protected ==
    /\ _requires_api_key(response.request)
    /\ _is_authorized(response.request.api_key, settings).ok
    /\ _is_authorized(response.request.api_key, settings).val
KeyConfigured ==
    settings.license_public_key_path # NoKey \/ settings.license_public_key # NoKey
\* the token carries a payload signed by the trusted key
Authentic(token) == Truthy(token) /\ verify_token(TrustedKey, token, 0).ok
PayloadOf(token) == verify_token(TrustedKey, token, 0).val
ExpiredAt(token, now) == PayloadOf(token).expires_at < now
RevokedNow(token) ==
    \/ PayloadOf(token).token_id.s \in settings.license_revoked_jtis
    \/ PayloadOf(token).tenant.id.s \in settings.license_revoked_subjects

\* C4 (revocation rule): whatever settings updates came before, a protected
\* request to a service with a license key configured, whose token is
\* authentic and unexpired but whose token_id or tenant.id is in the
\* currently configured revoked sets, is answered 403 "License token
\* revoked." and gets no claims
C4_RevokedRejected ==
    (/\ Dispatched /\ Protected /\ KeyConfigured
     /\ Authentic(response.request.token)
     /\ ~ExpiredAt(response.request.token, response.now)
     /\ RevokedNow(response.request.token))
    => /\ response.status = 403
       /\ response.detail = "License token revoked."
       /\ response.claims = PyNone

\* the revocation rule where the middleware verifies tokens, that is with
\* license_public_key_path set
C4_RevokedRejectedWithKeyFile ==
    (/\ Dispatched /\ Protected /\ settings.license_public_key_path # NoKey
     /\ Authentic(response.request.token)
     /\ ~ExpiredAt(response.request.token, response.now)
     /\ RevokedNow(response.request.token))
    => /\ response.status = 403
       /\ response.detail = "License token revoked."
       /\ response.claims = PyNone

\* a token that was granted claims earlier is refused as revoked
C4_WitnessWithKeyFile ==
    /\ Dispatched /\ Protected /\ settings.license_public_key_path # NoKey
    /\ response.request.token \in granted
    /\ RevokedNow(response.request.token)
    /\ response.status = 403 /\ response.detail = "License token revoked."

\* C5 (revocation precedence): an authentic token that is expired is
\* reported as expired and never as revoked, whatever the revoked sets
\* hold: by the middleware (403 "License token expired."), by
\* require_license_token on a router (401 "License token has expired.") and
\* by validate_license_token (403 "License token expired.")
C5_ExpiredBeforeRevoked ==
    /\ (/\ Dispatched /\ Protected
        /\ Authentic(response.request.token)
        /\ ExpiredAt(response.request.token, response.now))
       => /\ response.detail # "License token revoked."
          /\ settings.license_public_key_path # NoKey
             => /\ response.status = 403
                /\ response.detail = "License token expired."
          /\ (/\ settings.license_public_key_path = NoKey
              /\ settings.license_public_key # NoKey
              /\ response.request.endpoint.router_dependencies)
             => /\ response.status = 401
                /\ response.detail = "License token has expired."
    /\ (/\ response.op = "validate_license_token"
        /\ response.request.token = ServiceJwt(settings.license_public_key)
        /\ ServiceExpiry < response.now)
       => /\ response.status = 403
          /\ response.detail = "License token expired."

\* a token both expired and revoked is reported expired by the middleware
C5_Witness ==
    /\ Dispatched /\ Protected /\ settings.license_public_key_path # NoKey
    /\ Authentic(response.request.token)
    /\ ExpiredAt(response.request.token, response.now)
    /\ RevokedNow(response.request.token)
    /\ response.status = 403 /\ response.detail = "License token expired."

\* C6 (trial fallback scope): when a license public key is configured, by
\* path or inline, a request without a valid license token gets no claims
C6_NoTrialWhenKeyConfigured ==
    (/\ Dispatched /\ KeyConfigured
     /\ ~(/\ Authentic(response.request.token)
          /\ ~ExpiredAt(response.request.token, response.now)))
    => response.claims = PyNone

\* the persisted trial is over at the instant of the request
TrialOverAt(now) ==
    /\ trial_file # NoFile
    /\ _load_trial(trial_file, now).ret.ok
    /\ ~_load_trial(trial_file, now).ret.val.valid

\* C9 (trial expiry grants nothing): with no license key configured and the
\* trial over, a protected request to a feature-gated endpoint gets no
\* claims and is answered 403 with the trial-expired detail
C9_TrialExpiredRefused ==
    (/\ Dispatched /\ Protected /\ ~KeyConfigured
     /\ response.request.endpoint.feature # ""
     /\ TrialOverAt(response.now))
    => /\ response.claims = PyNone
       /\ response.status = 403
       /\ response.detail = TrialExpiredDetail

\* after the trial no request is granted claims or served
C9_NothingGrantedAfterTrial ==
    (/\ Dispatched /\ Protected /\ ~KeyConfigured
     /\ response.request.endpoint.feature # ""
     /\ TrialOverAt(response.now))
    => /\ response.claims = PyNone
       /\ response.status # 200

\* C11 (trial fallback serves routed requests): with no license key
\* configured and the trial active, a request with the right API key and no
\* X-License header to POST /invoices/classify is served (200) under the
\* trial claims
C11_TrialServesRouter ==
    (/\ Dispatched /\ Protected /\ ~KeyConfigured
     /\ response.request.endpoint = InvoicesClassify
     /\ response.request.token = PyNone
     /\ ~TrialOverAt(response.now))
    => /\ response.status = 200
       /\ response.claims # PyNone
       /\ "classify" \in response.claims.features

\* a "features" value that names no feature: no str or list, or a list
\* whose items are blank or no strings
Featureless(value) ==
    /\ value.t # "str" \/ value.s \in {"", " "}
    /\ IsList(value) =>
          \A i \in 1..Len(value.items) :
             value.items[i].t # "str" \/ value.items[i].s \in {"", " "}

\* the token is a JWT of the configured key, unexpired and not revoked
ValidJwt(token, now) ==
    /\ Truthy(token)
    /\ settings.license_public_key # NoKey
    /\ token.signature = SigBytes(settings.license_public_key,
                                  <<token.header, token.payload>>)
    /\ GetItem(token.payload, "exp").n * TicksPerSecond >= now
    /\ GetItem(token.payload, "jti").s \notin settings.license_revoked_jtis
    /\ GetItem(token.payload, "sub").s \notin settings.license_revoked_subjects

MissingPermissionsDetail == "License payload is missing feature permissions."

\* C14 (feature emptiness): no claims with an empty feature set are ever
\* attached or returned, and an authentic, unexpired, unrevoked token whose
\* features are absent, empty, blank or no strings is answered 403 "License
\* payload is missing feature permissions." by the middleware and by
\* validate_license_token
C14_FeatureEmptiness ==
    /\ (response.op \in {"dispatch", "validate_license_token"}
        /\ response.claims # PyNone)
       => response.claims.features # {}
    /\ (/\ Dispatched /\ Protected /\ settings.license_public_key_path # NoKey
        /\ Authentic(response.request.token)
        /\ ~ExpiredAt(response.request.token, response.now)
        /\ ~RevokedNow(response.request.token)
        /\ Featureless(PyList(PayloadOf(response.request.token).features)))
       => /\ response.status = 403
          /\ response.detail = MissingPermissionsDetail
          /\ response.claims = PyNone
    /\ (/\ response.op = "validate_license_token"
        /\ ValidJwt(response.request.token, response.now)
        /\ Featureless(DictGet(response.request.token.payload, "features")))
       => /\ response.status = 403
          /\ response.detail = MissingPermissionsDetail
          /\ response.claims = PyNone

\* validate_license_token refuses a well-signed JWT whose features are a
\* list of a blank and a number
C14_Witness ==
    /\ response.op = "validate_license_token"
    /\ ValidJwt(response.request.token, response.now)
    /\ DictGet(response.request.token.payload, "features")
          = PyList(<<PyStr(" "), PyInt(5)>>)
    /\ response.status = 403
    /\ response.detail = MissingPermissionsDetail

\* the middleware refuses a well-signed token whose features are empty
C14_WitnessDispatch ==
    /\ Dispatched /\ Protected /\ settings.license_public_key_path # NoKey
    /\ Authentic(response.request.token)
    /\ PayloadOf(response.request.token).features = <<>>
    /\ response.status = 403
    /\ response.detail = MissingPermissionsDetail

EnsuredFeature == response.op = "ensure_feature"

\* what the claim says of a call ensure_feature(claims, f)
FeatureGateRule ==
    /\ response.claims = PyNone
       => response.ret = HTTP(401, "Missing license token.")
    /\ (response.claims # PyNone
        /\ Strip(response.feature) \in response.claims.features)
       => response.ret = Ok(response.claims)
    /\ (response.claims # PyNone
        /\ Strip(response.feature) \notin response.claims.features)
       => response.ret =
             HTTP(403, "License does not permit '" \o Strip(response.feature)
                       \o "' operations.")

\* a served request to a feature-gated endpoint carried claims that hold
\* the endpoint's feature
GatedEndpointsServeHolders ==
    (Dispatched /\ response.status = 200 /\ response.request.endpoint.feature # "")
    => /\ response.claims # PyNone
       /\ response.request.endpoint.feature \in response.claims.features

\* C15 as stated (feature gating), for every feature name f: ensure_feature
\* returns the claims exactly when stripped f is in claims.features, fails
\* with 403 naming f when it is not, and with 401 when claims is None
C15_FeatureGateAnyName ==
    /\ EnsuredFeature => FeatureGateRule
    /\ GatedEndpointsServeHolders

\* C15 (feature gating), amended: for a feature name f that is not blank,
\* ensure_feature returns the claims unchanged exactly when stripped f is in
\* claims.features, fails with 403 naming stripped f when it is not, and with
\* 401 when claims is None; for a blank f it raises ValueError whatever the
\* claims; and a feature-gated endpoint is served only under claims that
\* hold its feature
C15_FeatureGate ==
    /\ (EnsuredFeature /\ Strip(response.feature) # "") => FeatureGateRule
    /\ (EnsuredFeature /\ Strip(response.feature) = "")
       => response.ret = Raise("ValueError")
    /\ GatedEndpointsServeHolders

\* ensure_feature refuses claims without "predict", naming the feature
C15_Witness ==
    /\ EnsuredFeature
    /\ response.claims # PyNone
    /\ response.feature = "predict"
    /\ response.ret = HTTP(403, "License does not permit 'predict' operations.")

\* POST /predict refuses a license whose features are "extract" only
C15_WitnessEndpoint ==
    /\ Dispatched /\ response.request.endpoint = Predict
    /\ response.status = 403
    /\ response.detail = "License does not permit 'predict' operations."

\* ensure_feature called with a padded name the claims hold
C15_WitnessPadded ==
    /\ EnsuredFeature
    /\ response.feature = " extract"
    /\ response.ret = Ok(response.claims)

\* the license step of dispatch lets the request through: with a key file
\* configured the token verifies and yields claims; the trial branch never
\* rejects
LicenseStepPassed(request, now) ==
    settings.license_public_key_path # NoKey
    => /\ Truthy(request.token)
       /\ get_license_verifier(settings).ok
       /\ verify_token(get_license_verifier(settings).val, request.token, now).ok
       /\ build_license_claims(
              verify_token(get_license_verifier(settings).val, request.token, now).val,
              settings).ok

\* the X-API-Key header is the configured key
RightApiKey(request) == request.api_key # NoKey /\ request.api_key = settings.api_key

\* the API-key check, the limiter and the license step all let it through
GatePassed(request, now) ==
    /\ _is_authorized(request.api_key, settings).ok
    /\ _is_authorized(request.api_key, settings).val
    /\ ~response.rate_limited
    /\ LicenseStepPassed(request, now)

GateHolds(request, now) ==
    /\ response.called => GatePassed(request, now)
    /\ ~GatePassed(request, now)
       => ~response.called /\ response.status \in {401, 403, 429, 503}
    /\ (Authentic(request.token) /\ ~RightApiKey(request))
       => response.status = 401 /\ ~response.called

\* C20 (middleware gate): on a protected path call_next is awaited only if
\* the API key was the right one, the limiter allowed the request and the
\* license step did not reject it; a response of 401, 403, 429 or 503 means
\* call_next was not awaited; a request with a valid license token and a
\* missing or wrong API key gets 401
C20_MiddlewareGate ==
    (Dispatched /\ _requires_api_key(response.request))
    => GateHolds(response.request, response.now)

\* the bucket of an identity holds between 0 and R+B tokens; while no time
\* elapsed since its first request the identity was allowed at most R+B
\* requests, was rejected only after R+B were allowed, and its bucket lacks
\* exactly the tokens of its own allowed requests
BucketWithin(identity, capacity) ==
    /\ limiter._buckets[identity].tokens >= 0
    /\ limiter._buckets[identity].tokens <= capacity * TokenUnit
    /\ admitted[identity].fresh
       => /\ admitted[identity].allowed <= capacity
          /\ admitted[identity].rejected => admitted[identity].allowed = capacity
          /\ limiter._buckets[identity].tokens
                = (capacity - admitted[identity].allowed) * TokenUnit

Whole(observation) == observation.value \in {observation.pre, observation.post}

\* C24 (atomic revocation update): a request verified while an admin update
\* replaces the revocation configuration reads each revoked set, token ids
\* and tenant ids, as the complete set before the update or the complete
\* set after it
C24_AtomicRevocationUpdate ==
    "reader" \in DOMAIN calls
    => /\ calls.reader.pc \in {"subjects", "done"} => Whole(calls.reader.jtis)
       /\ calls.reader.pc = "done" => Whole(calls.reader.subjects)

\* a request that read the revoked token ids after _apply_settings replaced
\* them and the revoked tenant ids before it replaced those
C24_Witness ==
    /\ "reader" \in DOMAIN calls
    /\ calls.reader.pc = "done"
    /\ calls.reader.jtis.pre # calls.reader.jtis.post
    /\ calls.reader.jtis.value = calls.reader.jtis.post
    /\ calls.reader.jtis.pre # {}
    /\ calls.reader.subjects.pre # calls.reader.subjects.post
    /\ calls.reader.subjects.value = calls.reader.subjects.pre

----------------------------------------------------------------------------
(* Claims about the trial.                                                 *)

\* C7 (trial idempotence): every status a trial call returns carries the
\* started_at and expires_at of the first status returned, inside the window
\* (valid) and after it (valid = FALSE, started_at unchanged).
C7_TrialIdempotent ==
    TrialReturned =>
        /\ trial_first.set
        /\ LastStatus.started_at = trial_first.status.started_at
        /\ LastStatus.expires_at = trial_first.status.expires_at
        /\ LastStatus.valid = (trial_ret.now < trial_first.status.expires_at)

\* a call after the window of a trial whose first call was inside it
C7_Witness ==
    /\ TrialReturned
    /\ trial_first.status.valid
    /\ ~LastStatus.valid
    /\ LastStatus.started_at = trial_first.status.started_at

TrialRank(file, now) ==
    LET r == _load_trial(file, now)
    IN IF r.file # file \/ ~r.ret.ok THEN 0       \* Uninitialized
       ELSE IF r.ret.val.valid THEN 1             \* Active
       ELSE 2                                     \* Expired

\* C8 (trial monotonicity): with a non-decreasing clock the trial only moves
\* Uninitialized -> Active -> Expired, and once a call has returned
\* valid = FALSE every later call returns valid = FALSE with the same
\* started_at.
C8_TrialMonotone ==
    [][/\ clock' >= clock
       /\ TrialRank(trial_file', clock') >= TrialRank(trial_file, clock)
       /\ (TrialRank(trial_file, clock) = 0 => TrialRank(trial_file', clock') <= 1)
       /\ (TrialReturned /\ ~LastStatus.valid) =>
              /\ TrialReturned'
              /\ ~LastStatus'.valid
              /\ LastStatus'.started_at = LastStatus.started_at]_vars

\* a call made after an earlier call had returned valid = FALSE
C8_Witness ==
    /\ TrialReturned
    /\ trial_ret.after_expired
    /\ ~LastStatus.valid

\* C10 (trial initialization): a call that finds no trial file returns
\* started_at = now, expires_at = now + 7 days, valid, the default features,
\* and leaves both timestamps in the trial file.
C10_TrialInitialized ==
    (trial_ret.op # "none" /\ ~trial_ret.had_file) =>
        /\ trial_ret.ret.ok
        /\ LastStatus.started_at = trial_ret.now
        /\ LastStatus.expires_at = trial_ret.now + 7 * 86400 * TicksPerSecond
        /\ LastStatus.valid
        /\ LastStatus.features =
              {"extract", "classify", "predict", "predictive",
               "predictive_train", "train"}
        /\ trial_file.bt = "text"
        /\ IsDict(trial_file.val)
        /\ Keys(trial_file.val) = {"started_at", "expires_at"}
        /\ fromisoformat(GetItem(trial_file.val, "started_at")) = Ok(trial_ret.now)
        /\ fromisoformat(GetItem(trial_file.val, "expires_at"))
              = Ok(trial_ret.now + 7 * 86400 * TicksPerSecond)

\* a first call at an instant with a sub-second part, no file present
C10_Witness ==
    /\ trial_ret.op = "get_trial_status"
    /\ ~trial_ret.had_file
    /\ trial_ret.now % TicksPerSecond # 0
    /\ trial_ret.ret.ok

\* the call of worker p has read the trial file
HasRead(p) == calls[p].pc \in {"open", "write", "done"} /\ calls[p].seen.bt # "absent"
Returned(p) == calls[p].pc = "done"

\* C23 (atomic trial persistence): a get_trial_status call that runs while
\* another one writes the trial file never reads a half-written file, so it
\* never takes a write in progress for corruption and starts the trial anew
C23_AtomicTrialPersistence ==
    \A p \in DOMAIN calls :
        HasRead(p)
        => /\ calls[p].seen # EmptyFile
           /\ calls[p].out.file = calls[p].seen

\* C28 (single trial window under concurrent first use): when the first
\* calls of the workers interleave while no trial file exists, every call
\* returns the same started_at and expires_at, and that pair is the one
\* left in the trial file
C28_SingleTrialWindow ==
    (\A p \in DOMAIN calls : Returned(p))
    => \A p, q \in DOMAIN calls :
          /\ calls[p].out.ret.val.started_at = calls[q].out.ret.val.started_at
          /\ calls[p].out.ret.val.expires_at = calls[q].out.ret.val.expires_at
          /\ trial_file = _persist_trial(calls[p].out.ret.val.started_at,
                                         calls[p].out.ret.val.expires_at)

\* the content holds a JSON object with parseable started_at and expires_at
\* strings, expires_at after started_at
HoldsWindow(file) ==
    /\ json_loads(file).ok
    /\ IsDict(json_loads(file).val)
    /\ HasKey(json_loads(file).val, "started_at")
    /\ HasKey(json_loads(file).val, "expires_at")
    /\ IsStr(GetItem(json_loads(file).val, "started_at"))
    /\ IsStr(GetItem(json_loads(file).val, "expires_at"))
    /\ fromisoformat(GetItem(json_loads(file).val, "started_at")).ok
    /\ fromisoformat(GetItem(json_loads(file).val, "expires_at")).ok
    /\ fromisoformat(GetItem(json_loads(file).val, "expires_at")).val
          > fromisoformat(GetItem(json_loads(file).val, "started_at")).val

\* the call returned a trial started now and left it in the file
Reinitialized(call, file, now) ==
    /\ call.ret.ok
    /\ StatusOf(call.op, call.ret).started_at = now
    /\ StatusOf(call.op, call.ret).expires_at = now + _TRIAL_DURATION
    /\ StatusOf(call.op, call.ret).valid
    /\ file = _persist_trial(now, now + _TRIAL_DURATION)

\* C25 (corrupt trial state is re-initialized): a trial call that finds a
\* trial file not holding a window starts the trial from now, persists it
\* and returns a valid status, without raising
C25_CorruptTrialReinitialized ==
    [][(trial_ret' # trial_ret /\ trial_file.bt # "absent" /\ ~HoldsWindow(trial_file))
       => Reinitialized(trial_ret', trial_file', clock)]_vars

====
